---- MODULE Spec2Model ----
(***************************************************************************)
(* RedMesh Navigator: the probe-result normalizer                          *)
(* (src/lib/utils/probeResult.ts) and the per-port aggregation of the      *)
(* Discovered Ports view (src/unnamed/part_005).                           *)
(*                                                                         *)
(* JavaScript strings are TLA+ strings; a JavaScript scalar is a record    *)
(* [t, s, n, b] whose tag t is the typeof of the value.                    *)
(***************************************************************************)
EXTENDS Integers, Sequences, FiniteSets, TLC

VARIABLES raw, norm, pc, aggregatedPorts, portAnalysis,
          searchQuery, severityFilter, categoryFilter, sortMode, owaspFilter,
          score, observations, credentialsPenalty, riskLevel, highlighted,
          isExpanded, rendered, cardFindings, inlineFindings, infoLines, plainLines,
          visibleLines,
          heap, mutableJobs, now, calls, lastCall,
          selectedPort

\* the filter and sort state of the Discovered Ports view
filters == <<searchQuery, severityFilter, categoryFilter, sortMode, owaspFilter>>

\* the pass score shown by RiskScoreBadge and the credential part of its breakdown
risk == <<score, observations, credentialsPenalty, riskLevel, highlighted>>

\* the state outside the normalizer and the Discovered Ports view
\* what ProbeResultBlock shows of a probe result
block ==
  <<isExpanded, rendered, cardFindings, inlineFindings, infoLines, plainLines, visibleLines>>

\* the mock job store of src/lib/api/constants.ts: heap holds the Job objects by
\* reference, mutableJobs is the array of references, now is the clock in minutes
\* since the module was loaded, lastCall is the call that made the last step
store == <<heap, mutableJobs, now, calls, lastCall>>

\* the port whose detail panel is open in Discovered Ports: <<>> is null
selection == <<selectedPort>>

views == <<risk, block, store, selection>>

vars == <<raw, norm, pc, aggregatedPorts, portAnalysis, filters, views>>

(***************************************************************************)
(* Bounds of the explored inputs.                                          *)
(***************************************************************************)
MaxFindings == 2
MaxLegacy == 2
MaxProbes == 2
MaxPorts == 3
MaxSelected == 3
MaxFields == 2
MaxObservations == 3
MaxCalls == 2

(***************************************************************************)
(* JavaScript scalars.                                                     *)
(***************************************************************************)
Undef == [t |-> "undefined", s |-> "", n |-> 0, b |-> FALSE]
Null == [t |-> "null", s |-> "", n |-> 0, b |-> FALSE]
Str(x) == [t |-> "string", s |-> x, n |-> 0, b |-> FALSE]
Num(k) == [t |-> "number", s |-> "", n |-> k, b |-> FALSE]
Bool(v) == [t |-> "boolean", s |-> "", n |-> 0, b |-> v]

\* if (v) ...: the truthiness of a scalar
Truthy(v) ==
  CASE v.t = "string" -> v.s # ""
    [] v.t = "number" -> v.n # 0
    [] v.t = "boolean" -> v.b
    [] OTHER -> FALSE

\* v === null || v === undefined
Nullish(v) == v.t \in {"undefined", "null"}

\* An operator's argument is evaluated when it is first read.  Evaluated(v)
\* reads v and is TRUE: a loop that tests it computes its accumulator at every
\* pass, as the code does, instead of nesting the passes.
Evaluated(v) == v = v

Digits == "0123456789"

RECURSIVE NatToString(_)
NatToString(k) ==
  IF k < 10 THEN SubSeq(Digits, k + 1, k + 1)
  ELSE NatToString(k \div 10) \o SubSeq(Digits, (k % 10) + 1, (k % 10) + 1)

\* String(v)
ToStr(v) ==
  CASE v.t = "string" -> v.s
    [] v.t = "number" -> IF v.n < 0 THEN "-" \o NatToString(0 - v.n) ELSE NatToString(v.n)
    [] v.t = "boolean" -> IF v.b THEN "true" ELSE "false"
    [] v.t = "null" -> "null"
    [] OTHER -> "undefined"

(***************************************************************************)
(* String primitives.                                                      *)
(***************************************************************************)
\* s.includes(t)
Includes(s, t) ==
  \/ t = ""
  \/ \E i \in 1..(Len(s) - Len(t) + 1) : SubSeq(s, i, i + Len(t) - 1) = t

\* s.startsWith(t)
StartsWith(s, t) == Len(s) >= Len(t) /\ (t = "" \/ SubSeq(s, 1, Len(t)) = t)

LowerAlphabet == "abcdefghijklmnopqrstuvwxyz"
UpperAlphabet == "ABCDEFGHIJKLMNOPQRSTUVWXYZ"

UpperChar(c) ==
  IF \E i \in 1..26 : SubSeq(LowerAlphabet, i, i) = c
  THEN LET i == CHOOSE j \in 1..26 : SubSeq(LowerAlphabet, j, j) = c
       IN SubSeq(UpperAlphabet, i, i)
  ELSE c

\* s.toUpperCase()
RECURSIVE ToUpperCase(_)
ToUpperCase(s) ==
  IF Len(s) <= 1 THEN UpperChar(s)
  ELSE ToUpperCase(SubSeq(s, 1, Len(s) \div 2))
         \o ToUpperCase(SubSeq(s, Len(s) \div 2 + 1, Len(s)))

\* l.trim() is a non-empty string
TrimTruthy(l) == \E i \in 1..Len(l) : SubSeq(l, i, i) \notin {" ", "\n", "\t"}

\* str.split('\n')
RECURSIVE SplitLines(_)
\* the part of s before position i, then the split of the part after it
SplitAt(s, i) == <<SubSeq(s, 1, i - 1)>> \o SplitLines(SubSeq(s, i + 1, Len(s)))

SplitLines(s) ==
  IF \A i \in 1..Len(s) : SubSeq(s, i, i) # "\n" THEN <<s>>
  ELSE SplitAt(s, CHOOSE i \in 1..Len(s) :
                    /\ SubSeq(s, i, i) = "\n"
                    /\ \A j \in 1..(i - 1) : SubSeq(s, j, j) # "\n")

\* arr.join(sep) of an array of strings
RECURSIVE Join(_, _)
Join(arr, sep) ==
  IF arr = <<>> THEN ""
  ELSE IF Len(arr) = 1 THEN arr[1]
  ELSE arr[1] \o sep \o Join(Tail(arr), sep)

(***************************************************************************)
(* normalizeProbeResult (src/lib/utils/probeResult.ts).                    *)
(*                                                                         *)
(* A raw probe result is [kind, text, items, obj]: kind is "null",         *)
(* "undefined", "string" (text), "array" (items, an array of strings) or   *)
(* "object" (obj).  obj carries the fields error, banner, findings,        *)
(* vulnerabilities and note; note is a key outside the handled set.  An    *)
(* array-valued field is [present, elems].  Every other own property is    *)
(* in obj.fields, a function from the key to its value (a scalar or an     *)
(* array of scalars), and obj.keys is the order of Object.entries(obj).    *)
(***************************************************************************)
\* Array.isArray(v)
IsArray(v) == "elems" \in DOMAIN v

\* obj[key] for a key outside error, banner, findings and vulnerabilities
Prop(obj, key) ==
  IF key = "note" THEN obj.note
  ELSE IF key \in DOMAIN obj.fields THEN obj.fields[key]
  ELSE Undef

\* elems.join(sep): a null or undefined element is rendered as the empty string
RECURSIVE JoinElems(_, _)
JoinElems(elems, sep) ==
  IF elems = <<>> THEN ""
  ELSE (IF Nullish(Head(elems)) THEN "" ELSE ToStr(Head(elems)))
       \o (IF Len(elems) = 1 THEN "" ELSE sep \o JoinElems(Tail(elems), sep))

\* String(v) of a scalar or an array
StringOf(v) == IF IsArray(v) THEN JoinElems(v.elems, ",") ELSE ToStr(v)

\* if (v) ... of a scalar or an array (an array is truthy)
TruthyValue(v) == IsArray(v) \/ Truthy(v)

\* JSON.stringify of an array element (the strings explored need no escaping)
JsonOf(e) ==
  CASE e.t = "string" -> "\"" \o e.s \o "\""
    [] e.t \in {"number", "boolean"} -> ToStr(e)
    [] OTHER -> "null"

\* JSON.stringify(val) of an array of scalars
RECURSIVE JsonElems(_)
JsonElems(elems) ==
  IF elems = <<>> THEN ""
  ELSE JsonOf(Head(elems)) \o (IF Len(elems) = 1 THEN "" ELSE "," \o JsonElems(Tail(elems)))

JsonStringify(v) == "[" \o JsonElems(v.elems) \o "]"

EmptyResult ==
  [lines |-> <<>>, findings |-> <<>>, hasVulnerability |-> FALSE,
   hasError |-> FALSE, vulnerabilities |-> <<>>, banner |-> Null]

Append2(acc, field, x) == [acc EXCEPT ![field] = Append(@, x)]

\* faulty variant of isVuln: MEDIUM is left out of the vulnerability grades
isVuln_NoMedium(severity) == severity \in {"CRITICAL", "HIGH"}

\* severity === 'CRITICAL' || severity === 'HIGH' || severity === 'MEDIUM'
isVuln(severity) == severity \in {"CRITICAL", "HIGH", "MEDIUM"}

\* String(finding.severity ?? 'INFO').toUpperCase() as ParsedFinding['severity']
ParseSeverity(v) == ToUpperCase(ToStr(IF Nullish(v) THEN Str("INFO") ELSE v))

\* the ParsedFinding built from one object entry of obj.findings
ParseFinding(f) ==
  [severity |-> ParseSeverity(f.severity),
   title |-> ToStr(IF Nullish(f.title) THEN Str("") ELSE f.title),
   owasp_id |-> IF Truthy(f.owasp_id) THEN Str(ToStr(f.owasp_id)) ELSE Undef]

VulnLabel(p) == "VULNERABILITY: [" \o p.severity \o "] " \o p.title
PlainLabel(p) == "[" \o p.severity \o "] " \o p.title

\* faulty variant of FindingStep: the line of a vulnerability-grade finding has no marker
FindingStep_PlainLine(parsed, acc) ==
  IF isVuln(parsed.severity)
  THEN Append2(Append2(Append2(acc, "findings", parsed),
                       "vulnerabilities", VulnLabel(parsed)),
               "lines", PlainLabel(parsed))
  ELSE Append2(Append2(acc, "findings", parsed), "lines", PlainLabel(parsed))

\* findings.push(parsed); if (isVuln) {...} else {...}
FindingStep(parsed, acc) ==
  IF isVuln(parsed.severity)
  THEN Append2(Append2(Append2(acc, "findings", parsed),
                       "vulnerabilities", VulnLabel(parsed)),
               "lines", VulnLabel(parsed))
  ELSE Append2(Append2(acc, "findings", parsed), "lines", PlainLabel(parsed))

\* for (const f of obj.findings) { ... }
RECURSIVE FindingsLoop(_, _)
FindingsLoop(elems, acc) ==
  IF elems = <<>> \/ ~Evaluated(acc) THEN acc
  ELSE IF ~Head(elems).isObj THEN FindingsLoop(Tail(elems), acc)
  ELSE FindingsLoop(Tail(elems), FindingStep(ParseFinding(Head(elems)), acc))

\* faulty variant of LegacyDuplicate: only an identical entry counts as a duplicate
LegacyDuplicate_ExactOnly(vulnerabilities, vs) ==
  \E i \in 1..Len(vulnerabilities) : vulnerabilities[i] = vs

\* vulnerabilities.includes(vs) || vulnerabilities.some(existing => existing.includes(vs))
LegacyDuplicate(vulnerabilities, vs) ==
  \/ \E i \in 1..Len(vulnerabilities) : vulnerabilities[i] = vs
  \/ \E i \in 1..Len(vulnerabilities) : Includes(vulnerabilities[i], vs)

\* for (const v of obj.vulnerabilities) { ... }
RECURSIVE LegacyLoop(_, _)
LegacyLoop(elems, acc) ==
  IF elems = <<>> THEN acc
  ELSE LET vs == ToStr(Head(elems))
       IN IF ~LegacyDuplicate(acc.vulnerabilities, vs)
          THEN LegacyLoop(Tail(elems),
                 Append2(Append2(acc, "vulnerabilities", vs), "lines", "VULNERABILITY: " \o vs))
          ELSE LegacyLoop(Tail(elems), acc)

\* faulty variant of GenericKey: a falsy value is skipped like a missing one
GenericKey_TruthyOnly(key, val, acc) ==
  IF ~TruthyValue(val) THEN acc
  ELSE LET valStr == IF IsArray(val) THEN JsonStringify(val) ELSE ToStr(val)
           acc1 == Append2(acc, "lines", key \o ": " \o valStr)
       IN IF Includes(valStr, "VULNERABILITY")
          THEN Append2(acc1, "vulnerabilities", valStr)
          ELSE acc1

\* the body of "for (const [key, val] of Object.entries(obj))" for one unhandled key
GenericKey(key, val, acc) ==
  IF ~IsArray(val) /\ Nullish(val) THEN acc
  ELSE LET valStr == IF IsArray(val) THEN JsonStringify(val) ELSE ToStr(val)
           acc1 == Append2(acc, "lines", key \o ": " \o valStr)
       IN IF Includes(valStr, "VULNERABILITY")
          THEN Append2(acc1, "vulnerabilities", valStr)
          ELSE acc1

\* faulty variant of HANDLED_KEYS: the fingerprint and FTP server keys are left out
HANDLED_KEYS_Incomplete ==
  {"banner", "auth_methods", "vulnerabilities", "accepted_credentials", "error",
   "features", "anonymous_access", "write_access", "tls_supported",
   "directory_listing", "negotiation_options", "system_info",
   "server_hostname", "max_message_size", "starttls", "open_relay", "vrfy_enabled",
   "expn_enabled", "ssh_version", "weak_algorithms",
   "version", "os", "config_writable", "db_size", "connected_clients",
   "auth_plugin", "protocol_byte",
   "security_types", "security_type_labels",
   "server", "title", "technologies", "dangerous_methods",
   "vpn_endpoints",
   "findings"}

\* const handled = new Set([...])
HANDLED_KEYS ==
  {"banner", "auth_methods", "vulnerabilities", "accepted_credentials", "error",
   "server_type", "features", "anonymous_access", "write_access", "tls_supported",
   "directory_listing", "negotiation_options", "system_info",
   "server_hostname", "max_message_size", "starttls", "open_relay", "vrfy_enabled",
   "expn_enabled", "ssh_version", "weak_algorithms",
   "version", "os", "config_writable", "db_size", "connected_clients",
   "auth_plugin", "protocol_byte",
   "security_types", "security_type_labels",
   "server", "title", "technologies", "dangerous_methods",
   "powered_by", "generator", "vpn_endpoints",
   "findings"}

\* for (const [key, val] of Object.entries(obj)) { if (!handled.has(key) && ...) {...} }
RECURSIVE GenericLoop(_, _, _)
GenericLoop(obj, keys, acc) ==
  IF keys = <<>> \/ ~Evaluated(acc) THEN acc
  ELSE IF Head(keys) \in HANDLED_KEYS THEN GenericLoop(obj, Tail(keys), acc)
  ELSE GenericLoop(obj, Tail(keys), GenericKey(Head(keys), Prop(obj, Head(keys)), acc))

\* the dedicated renderers in source order: how is the test and the rendering
\*   "join":    Array.isArray(v) && v.length > 0  ->  label + v.join(', ')
\*   "string":  v                                 ->  label + String(v)
\*   "true":    v === true                        ->  label
\*   "boolean": typeof v === 'boolean'            ->  label + (v ? 'Yes' : 'No')
\*   "number":  typeof v === 'number'             ->  label + v + ' keys'
\*   "listing": non-empty array                   ->  a header line, then one line per entry
\*   "each":    non-empty array                   ->  label + String(entry) per entry
\*   "joinIfNoFindings": as "join", and findings.length === 0
Row(key, how, label) == [key |-> key, how |-> how, label |-> label]

AUTH_METHODS_RENDERER == Row("auth_methods", "join", "Auth methods: ")

TAIL_RENDERERS ==
  <<Row("accepted_credentials", "join", "Accepted credentials: "),
    Row("server_type", "string", "Server type: "),
    Row("features", "join", "Features: "),
    Row("anonymous_access", "true", "Anonymous access: Yes"),
    Row("write_access", "true", "Write access: Yes"),
    Row("tls_supported", "boolean", "TLS support: "),
    Row("directory_listing", "listing", "Directory listing ("),
    Row("negotiation_options", "join", "Negotiation: "),
    Row("system_info", "string", "System: "),
    Row("server_hostname", "string", "Server hostname: "),
    Row("max_message_size", "string", "Max message size: "),
    Row("ssh_version", "string", "SSH version: "),
    Row("weak_algorithms", "each", "Weak "),
    Row("version", "string", "Version: "),
    Row("os", "string", "OS: "),
    Row("config_writable", "boolean", "CONFIG writable: "),
    Row("db_size", "number", "DB size: "),
    Row("connected_clients", "join", "Connected clients: "),
    Row("auth_plugin", "string", "Auth plugin: "),
    Row("security_type_labels", "join", "Security types: "),
    Row("server", "string", "Server: "),
    Row("title", "string", "Title: "),
    Row("technologies", "join", "Technologies: "),
    Row("dangerous_methods", "joinIfNoFindings", "Dangerous methods: "),
    Row("powered_by", "string", "X-Powered-By: "),
    Row("generator", "string", "Generator: ")>>

NonEmptyArray(v) == IsArray(v) /\ Len(v.elems) > 0

\* the lines one renderer pushes for the value v of its key
RenderedLines(row, v, noFindings) ==
  CASE row.how = "join" ->
         IF NonEmptyArray(v) THEN <<row.label \o JoinElems(v.elems, ", ")>> ELSE <<>>
    [] row.how = "joinIfNoFindings" ->
         IF NonEmptyArray(v) /\ noFindings
         THEN <<row.label \o JoinElems(v.elems, ", ")>> ELSE <<>>
    [] row.how = "string" ->
         IF TruthyValue(v) THEN <<row.label \o StringOf(v)>> ELSE <<>>
    [] row.how = "true" ->
         IF ~IsArray(v) /\ v = Bool(TRUE) THEN <<row.label>> ELSE <<>>
    [] row.how = "boolean" ->
         IF ~IsArray(v) /\ v.t = "boolean"
         THEN <<row.label \o (IF v.b THEN "Yes" ELSE "No")>> ELSE <<>>
    [] row.how = "number" ->
         IF ~IsArray(v) /\ v.t = "number" THEN <<row.label \o ToStr(v) \o " keys">> ELSE <<>>
    [] row.how = "listing" ->
         IF NonEmptyArray(v)
         THEN <<row.label \o NatToString(Len(v.elems)) \o " entries):">>
                \o [i \in 1..Len(v.elems) |-> "  " \o ToStr(v.elems[i])]
         ELSE <<>>
    [] OTHER ->
         IF NonEmptyArray(v) THEN [i \in 1..Len(v.elems) |-> row.label \o ToStr(v.elems[i])]
         ELSE <<>>

RenderField(row, obj, acc) ==
  [acc EXCEPT !.lines = @ \o RenderedLines(row, Prop(obj, row.key), Len(acc.findings) = 0)]

\* the lines the renderers rows push, in source order (the rows are split in
\* halves, which keeps the order of the lines)
RECURSIVE FieldLines(_, _, _)
FieldLines(rows, obj, noFindings) ==
  IF rows = <<>> THEN <<>>
  ELSE IF Len(rows) = 1
  THEN RenderedLines(rows[1], Prop(obj, rows[1].key), noFindings)
  ELSE FieldLines(SubSeq(rows, 1, Len(rows) \div 2), obj, noFindings)
         \o FieldLines(SubSeq(rows, Len(rows) \div 2 + 1, Len(rows)), obj, noFindings)

\* the renderers of lines 109-211, applied in source order
FieldLoop(rows, obj, acc) ==
  [acc EXCEPT !.lines = @ \o FieldLines(rows, obj, Len(acc.findings) = 0)]

\* faulty variant of ErrorSet: only a string error short-circuits
ErrorSet_StringOnly(obj) == obj.error.t = "string" /\ obj.error.s # ""

\* if (obj.error) return {...}
ErrorSet(obj) == Truthy(obj.error)

\* const banner = obj.banner ? String(obj.banner) : null
ObjectBanner(obj) == IF Truthy(obj.banner) THEN Str(ToStr(obj.banner)) ELSE Null

\* if (Array.isArray(obj.findings) && obj.findings.length > 0) { ... }
FindingsPart(obj, acc) ==
  IF obj.findings.present /\ Len(obj.findings.elems) > 0
  THEN FindingsLoop(obj.findings.elems, acc) ELSE acc

\* if (banner) lines.push(`Banner: ${banner}`)
BannerPart(banner, acc) ==
  IF Truthy(banner) THEN Append2(acc, "lines", "Banner: " \o banner.s) ELSE acc

\* if (Array.isArray(obj.vulnerabilities)) { ... }
LegacyPart(obj, acc) ==
  IF obj.vulnerabilities.present THEN LegacyLoop(obj.vulnerabilities.elems, acc) ELSE acc

\* the lines, findings and vulnerabilities accumulated for an object without error
ObjectAccumulate(obj) ==
  GenericLoop(obj, obj.keys,
    FieldLoop(TAIL_RENDERERS, obj,
      LegacyPart(obj,
        RenderField(AUTH_METHODS_RENDERER, obj,
          BannerPart(ObjectBanner(obj),
            FindingsPart(obj, [lines |-> <<>>, findings |-> <<>>, vulnerabilities |-> <<>>]))))))

\* return { lines, findings, hasVulnerability: vulnerabilities.length > 0, ... }
ObjectResult(banner, acc) ==
  [lines |-> acc.lines, findings |-> acc.findings,
   hasVulnerability |-> Len(acc.vulnerabilities) > 0,
   hasError |-> FALSE, vulnerabilities |-> acc.vulnerabilities, banner |-> banner]

\* faulty variant of ErrorResult: the legacy vulnerability list survives the error
ErrorResult_KeepsLegacy(obj) ==
  [lines |-> <<ToStr(obj.error)>>, findings |-> <<>>,
   hasVulnerability |-> Len(obj.vulnerabilities.elems) > 0,
   hasError |-> TRUE,
   vulnerabilities |-> [i \in 1..Len(obj.vulnerabilities.elems) |->
                          ToStr(obj.vulnerabilities.elems[i])],
   banner |-> Null]

\* the short-circuit return of "if (obj.error)"
ErrorResult(obj) ==
  [lines |-> <<ToStr(obj.error)>>, findings |-> <<>>, hasVulnerability |-> FALSE,
   hasError |-> TRUE, vulnerabilities |-> <<>>, banner |-> Null]

NormalizeObject(obj) ==
  IF ErrorSet(obj) THEN ErrorResult(obj)
  ELSE ObjectResult(ObjectBanner(obj), ObjectAccumulate(obj))

\* faulty variant of MarkerLines: a vulnerability line must start with the marker
MarkerLines_PrefixOnly(lines) ==
  SelectSeq(lines, LAMBDA l : StartsWith(l, "VULNERABILITY"))

\* lines.filter((l) => l.includes('VULNERABILITY'))
MarkerLines(lines) == SelectSeq(lines, LAMBDA l : Includes(l, "VULNERABILITY"))

\* faulty variant of StringResult: the error prefix is looked for anywhere in the text
StringResult_ErrorAnywhere(str, lines) ==
  [lines |-> lines, findings |-> <<>>,
   hasVulnerability |-> Includes(str, "VULNERABILITY"),
   hasError |-> \/ Includes(str, "failed")
                \/ Includes(str, "timed out")
                \/ Includes(str, "ERROR:"),
   vulnerabilities |-> MarkerLines(lines), banner |-> Null]

\* the return of the legacy string branch, for str and its non-blank lines
StringResult(str, lines) ==
  [lines |-> lines, findings |-> <<>>,
   hasVulnerability |-> Includes(str, "VULNERABILITY"),
   hasError |-> \/ Includes(str, "failed")
                \/ Includes(str, "timed out")
                \/ StartsWith(str, "ERROR:"),
   vulnerabilities |-> MarkerLines(lines), banner |-> Null]

NormalizeString(str) == StringResult(str, SelectSeq(SplitLines(str), TrimTruthy))

normalizeProbeResult(result) ==
  CASE result.kind \in {"null", "undefined"} -> EmptyResult
    [] result.kind = "object" -> NormalizeObject(result.obj)
    [] result.kind = "array" -> NormalizeString(Join(result.items, ","))
    [] OTHER -> NormalizeString(result.text)

(***************************************************************************)
(* The raw results explored.                                               *)
(***************************************************************************)
BoundedSeq(S, n) == UNION {[1..k -> S] : k \in 0..n}

Absent == [present |-> FALSE, elems |-> <<>>]
Arr(elems) == [present |-> TRUE, elems |-> elems]

\* the keys of the objects that have no property in obj.fields
BaseKeys == <<"error", "banner", "findings", "vulnerabilities", "note">>
NoFields == [k \in {} |-> Undef]

NoObj ==
  [error |-> Undef, banner |-> Undef, findings |-> Absent,
   vulnerabilities |-> Absent, note |-> Undef, fields |-> NoFields, keys |-> BaseKeys]

RawNull == [kind |-> "null", text |-> "", items |-> <<>>, obj |-> NoObj]
RawUndefined == [kind |-> "undefined", text |-> "", items |-> <<>>, obj |-> NoObj]
RawString(s) == [kind |-> "string", text |-> s, items |-> <<>>, obj |-> NoObj]
RawArray(a) == [kind |-> "array", text |-> "", items |-> a, obj |-> NoObj]
RawObject(o) == [kind |-> "object", text |-> "", items |-> <<>>, obj |-> o]

FindingObj(sev, title, owasp) ==
  [isObj |-> TRUE, severity |-> sev, title |-> title, owasp_id |-> owasp]
\* an entry of obj.findings that is not an object (skipped by the loop)
FindingNonObj == [isObj |-> FALSE, severity |-> Undef, title |-> Undef, owasp_id |-> Undef]

FindingEntries ==
  {FindingNonObj,
   FindingObj(Str("high"), Str("Open Relay"), Str("A05")),
   FindingObj(Str("CRITICAL"), Str("RCE"), Undef),
   FindingObj(Str("Medium"), Undef, Str("A02")),
   FindingObj(Str("low"), Str("Open Relay"), Undef),
   FindingObj(Undef, Str("Banner"), Str("A05")),
   FindingObj(Str("severe"), Str("Open Relay"), Undef),
   FindingObj(Str(""), Str("RCE"), Undef)}

LegacyEntries == {Str("Open Relay"), Str("Open Relay on 25"), Str("HIGH")}

ErrorValues ==
  {Null, Str(""), Str("connect timeout"), Num(0), Num(7), Bool(FALSE), Bool(TRUE)}

BannerValues == {Undef, Str("SSH-2.0")}

NoteValues == {Undef, Str("VULNERABILITY y")}

TextValues ==
  {"", "open", "VULNERABILITY: weak", "ok\n\n VULNERABILITY x", "   \n ",
   "connection failed", "read timed out", "ERROR: refused", "an ERROR: x",
   "vulnerability", "Failed\nVULNERABILITY\nfailed", "Failed: Timed Out",
   "error: refused"}

ArrayValues == {<<>>, <<"VULNERABILITY", "a">>, <<"failed">>, <<"a", "b">>}

\* objects without an error field
PlainObjects ==
  {[error |-> Undef, banner |-> b, findings |-> f, vulnerabilities |-> v, note |-> n,
    fields |-> NoFields, keys |-> BaseKeys] :
     b \in BannerValues,
     f \in {Absent} \cup {Arr(e) : e \in BoundedSeq(FindingEntries, MaxFindings)},
     v \in {Absent} \cup {Arr(e) : e \in BoundedSeq(LegacyEntries, MaxLegacy)},
     n \in NoteValues}

\* objects with an error field, beside every other field
ErrorObjects ==
  {[error |-> e, banner |-> b, findings |-> f, vulnerabilities |-> v, note |-> n,
    fields |-> NoFields, keys |-> BaseKeys] :
     e \in ErrorValues,
     b \in BannerValues,
     f \in {Absent, Arr(<<FindingObj(Str("high"), Str("Open Relay"), Str("A05"))>>)},
     v \in {Absent, Arr(<<Str("Open Relay on 25")>>)},
     n \in {Undef, Str("VULNERABILITY y")}}

RawResults ==
  {RawNull, RawUndefined}
    \cup {RawString(s) : s \in TextValues}
    \cup {RawArray(a) : a \in ArrayValues}
    \cup {RawObject(o) : o \in PlainObjects \cup ErrorObjects}

(***************************************************************************)
(* portAnalysis of the Discovered Ports view (src/unnamed/part_005).       *)
(*                                                                         *)
(* aggregatedPorts is [ports, services, webTests]: ports is the sequence   *)
(* of port numbers; services and webTests are Maps (functions whose domain *)
(* is the set of keys) from a port to the entries of its record, a         *)
(* sequence of [name, result] in Object.entries order.                     *)
(***************************************************************************)
\* SEVERITY_RANK, exported by ProbeResultBlock: lower rank = more severe
SEVERITY_RANK == [CRITICAL |-> 0, HIGH |-> 1, MEDIUM |-> 2, LOW |-> 3, INFO |-> 4]

\* SEVERITY_RANK[severity] ?? SEVERITY_RANK.INFO
RankOf(severity) ==
  IF severity \in DOMAIN SEVERITY_RANK THEN SEVERITY_RANK[severity] ELSE SEVERITY_RANK.INFO

Min2(a, b) == IF a < b THEN a ELSE b

RECURSIVE MinRank(_)
MinRank(findings) ==
  IF Len(findings) = 1 THEN RankOf(findings[1].severity)
  ELSE Min2(RankOf(findings[1].severity), MinRank(Tail(findings)))

TopSeverity(findings) ==
  IF Len(findings) = 0 THEN SEVERITY_RANK.INFO ELSE MinRank(findings)

topSeverityFromResult(result) == TopSeverity(normalizeProbeResult(result).findings)

PROBE_TO_PROTOCOL ==
  [n \in {"_service_info_ftp", "_service_info_ssh", "_service_info_telnet",
          "_service_info_smtp", "_service_info_dns", "_service_info_http",
          "_service_info_https", "_service_info_http_alt", "_service_info_tls",
          "_service_info_mssql", "_service_info_mysql", "_service_info_rdp",
          "_service_info_postgresql", "_service_info_vnc", "_service_info_redis",
          "_service_info_elasticsearch", "_service_info_memcached",
          "_service_info_mongodb", "_service_info_snmp", "_service_info_smb",
          "_service_info_modbus", "_service_info_generic",
          "_service_info_mysql_creds", "_service_info_postgresql_creds"} |->
     CASE n = "_service_info_ftp" -> "FTP"
       [] n = "_service_info_ssh" -> "SSH"
       [] n = "_service_info_telnet" -> "TELNET"
       [] n = "_service_info_smtp" -> "SMTP"
       [] n = "_service_info_dns" -> "DNS"
       [] n = "_service_info_http" -> "HTTP"
       [] n = "_service_info_https" -> "HTTPS"
       [] n = "_service_info_http_alt" -> "HTTP"
       [] n = "_service_info_tls" -> "TLS"
       [] n = "_service_info_mssql" -> "MSSQL"
       [] n = "_service_info_mysql" -> "MYSQL"
       [] n = "_service_info_rdp" -> "RDP"
       [] n = "_service_info_postgresql" -> "POSTGRESQL"
       [] n = "_service_info_vnc" -> "VNC"
       [] n = "_service_info_redis" -> "REDIS"
       [] n = "_service_info_elasticsearch" -> "ELASTICSEARCH"
       [] n = "_service_info_memcached" -> "MEMCACHED"
       [] n = "_service_info_mongodb" -> "MONGODB"
       [] n = "_service_info_snmp" -> "SNMP"
       [] n = "_service_info_smb" -> "SMB"
       [] n = "_service_info_modbus" -> "MODBUS"
       [] n = "_service_info_generic" -> "GENERIC"
       [] n = "_service_info_mysql_creds" -> "MYSQL"
       [] OTHER -> "POSTGRESQL"]

\* PROBE_TO_PROTOCOL[probeName]
ProbeProtocol(probeName) ==
  IF probeName \in DOMAIN PROBE_TO_PROTOCOL THEN Str(PROBE_TO_PROTOCOL[probeName]) ELSE Undef

WELL_KNOWN_PORTS ==
  [p \in {21, 22, 23, 25, 42, 53, 80, 81, 110, 143, 161, 443, 445, 465, 502, 587,
          993, 995, 1433, 3306, 3389, 5432, 5900, 6379, 8000, 8008, 8080, 8081,
          8443, 8888, 9200, 11211, 27017} |->
     CASE p = 21 -> "FTP"
       [] p = 22 -> "SSH"
       [] p = 23 -> "TELNET"
       [] p \in {25, 465, 587} -> "SMTP"
       [] p = 42 -> "WINS"
       [] p = 53 -> "DNS"
       [] p \in {80, 81, 8000, 8008, 8080, 8081, 8888, 9200} -> "HTTP"
       [] p \in {110, 995} -> "POP3"
       [] p \in {143, 993} -> "IMAP"
       [] p = 161 -> "SNMP"
       [] p \in {443, 8443} -> "HTTPS"
       [] p = 445 -> "SMB"
       [] p = 502 -> "MODBUS"
       [] p = 1433 -> "MSSQL"
       [] p = 3306 -> "MYSQL"
       [] p = 3389 -> "RDP"
       [] p = 5432 -> "POSTGRESQL"
       [] p = 5900 -> "VNC"
       [] p = 6379 -> "REDIS"
       [] p = 11211 -> "MEMCACHED"
       [] OTHER -> "MONGODB"]

\* WELL_KNOWN_PORTS[port]
WellKnown(port) ==
  IF port \in DOMAIN WELL_KNOWN_PORTS THEN Str(WELL_KNOWN_PORTS[port]) ELSE Undef

\* map.set(k, v) and map.get(k) ?? d
MapSet(m, k, v) == [x \in (DOMAIN m) \cup {k} |-> IF x = k THEN v ELSE m[x]]
MapGetOr(m, k, d) == IF k \in DOMAIN m THEN m[k] ELSE d
EmptyMap == [x \in {} |-> 0]

\* faulty variant of OwaspStep: an identifier is tallied once per port
OwaspStep_OncePerPort(f, st) ==
  IF Truthy(f.owasp_id) /\ f.owasp_id.s \notin st.portOwaspIds
  THEN [st EXCEPT
          !.portOwaspIds = @ \cup {f.owasp_id.s},
          !.owaspCounts = MapSet(@, f.owasp_id.s, MapGetOr(@, f.owasp_id.s, 0) + 1)]
  ELSE st

\* if (f.owasp_id) { portOwaspIds.add(f.owasp_id);
\*                   owaspCounts.set(f.owasp_id, (owaspCounts.get(f.owasp_id) ?? 0) + 1) }
OwaspStep(f, st) ==
  IF Truthy(f.owasp_id)
  THEN [st EXCEPT
          !.portOwaspIds = @ \cup {f.owasp_id.s},
          !.owaspCounts = MapSet(@, f.owasp_id.s, MapGetOr(@, f.owasp_id.s, 0) + 1)]
  ELSE st

\* faulty variant of FindingRankLoop: only the first finding of a result is ranked
FindingRankLoop_FirstOnly(findings, st) ==
  IF findings = <<>> THEN st
  ELSE LET rank == RankOf(Head(findings).severity)
       IN IF rank < st.bestSev THEN [st EXCEPT !.bestSev = rank] ELSE st

\* for (const f of findings) { ... }: st is [bestSev, portOwaspIds, owaspCounts]
RECURSIVE FindingRankLoop(_, _)
FindingRankLoop(findings, st) ==
  IF findings = <<>> \/ ~Evaluated(st) THEN st
  ELSE LET f == Head(findings)
           rank == RankOf(f.severity)
       IN FindingRankLoop(Tail(findings),
            OwaspStep(f, IF rank < st.bestSev THEN [st EXCEPT !.bestSev = rank] ELSE st))

\* if (findings.length === 0) bestSev = Math.min(bestSev, topSeverityFromResult(result))
FallbackStep(result, findings, st) ==
  IF Len(findings) = 0
  THEN [st EXCEPT !.bestSev = Min2(@, topSeverityFromResult(result))]
  ELSE st

\* totalFindings += findings.length; for (const f of findings) {...}; the fallback
FindingsStep(result, findings, st) ==
  FallbackStep(result, findings,
    FindingRankLoop(findings, [st EXCEPT !.totalFindings = @ + Len(findings)]))

\* the body shared by the service loop and the web-test loop for one result
ProbeResultStep(result, st) ==
  FindingsStep(result, normalizeProbeResult(result).findings, st)

\* faulty variant of DetectStep: without the !detected guard the last match wins
DetectStep_LastWins(probeName, st) ==
  LET proto == ProbeProtocol(probeName)
  IN IF Truthy(proto) /\ proto.s # "GENERIC" /\ proto.s # "TLS"
     THEN [st EXCEPT !.detected = proto]
     ELSE st

\* if (proto && proto !== 'GENERIC' && proto !== 'TLS' && !detected) detected = proto
DetectStep(probeName, st) ==
  LET proto == ProbeProtocol(probeName)
  IN IF Truthy(proto) /\ proto.s # "GENERIC" /\ proto.s # "TLS" /\ ~Truthy(st.detected)
     THEN [st EXCEPT !.detected = proto]
     ELSE st

\* for (const [probeName, result] of Object.entries(svc)) { ... }
RECURSIVE ServiceLoop(_, _)
ServiceLoop(entries, st) ==
  IF entries = <<>> \/ ~Evaluated(st) THEN st
  ELSE ServiceLoop(Tail(entries),
         DetectStep(Head(entries).name, ProbeResultStep(Head(entries).result, st)))

\* for (const [, result] of Object.entries(web)) { ... }
RECURSIVE WebLoop(_, _)
WebLoop(entries, st) ==
  IF entries = <<>> \/ ~Evaluated(st) THEN st
  ELSE WebLoop(Tail(entries), ProbeResultStep(Head(entries).result, st))

\* Object.entries(SEVERITY_RANK).find(([, v]) => v === bestSev)?.[0] ?? 'INFO'
SeverityLabel(bestSev) ==
  IF \E k \in DOMAIN SEVERITY_RANK : SEVERITY_RANK[k] = bestSev
  THEN CHOOSE k \in DOMAIN SEVERITY_RANK : SEVERITY_RANK[k] = bestSev
  ELSE "INFO"

\* faulty variant of IsNonStandard: a listed port is never flagged
IsNonStandard_AbsentOnly(port, detected) ==
  Truthy(detected) /\ ~Truthy(WellKnown(port))

\* if (detected) { const expected = WELL_KNOWN_PORTS[port];
\*                 if (!expected || expected !== detected) nonStandard.add(port) }
IsNonStandard(port, detected) ==
  /\ Truthy(detected)
  /\ \/ ~Truthy(WellKnown(port))
     \/ WellKnown(port) # detected

\* faulty variant of ServiceLabelStep: the inferred protocol takes precedence
ServiceLabelStep_DetectedFirst(port, detected, serviceLabel) ==
  IF Truthy(detected) THEN MapSet(serviceLabel, port, detected.s)
  ELSE IF Truthy(WellKnown(port)) THEN MapSet(serviceLabel, port, WellKnown(port).s)
  ELSE serviceLabel

\* const wellKnownLabel = WELL_KNOWN_PORTS[port];
\* if (wellKnownLabel) serviceLabel.set(port, wellKnownLabel)
\* else if (detected) serviceLabel.set(port, detected)
ServiceLabelStep(port, detected, serviceLabel) ==
  IF Truthy(WellKnown(port)) THEN MapSet(serviceLabel, port, WellKnown(port).s)
  ELSE IF Truthy(detected) THEN MapSet(serviceLabel, port, detected.s)
  ELSE serviceLabel

\* faulty variant of PortStart: the best rank starts at LOW
PortStart_StartLow(res) ==
  [bestSev |-> SEVERITY_RANK.LOW, totalFindings |-> 0, detected |-> Null,
   portOwaspIds |-> {}, owaspCounts |-> res.owaspCounts]

\* let bestSev = SEVERITY_RANK.INFO; let totalFindings = 0; let detected = null; ...
PortStart(res) ==
  [bestSev |-> SEVERITY_RANK.INFO, totalFindings |-> 0, detected |-> Null,
   portOwaspIds |-> {}, owaspCounts |-> res.owaspCounts]

\* const svc = aggregatedPorts.services.get(port); if (svc) { ... }
ServicePart(agg, port, st) ==
  IF port \in DOMAIN agg.services THEN ServiceLoop(agg.services[port], st) ELSE st

\* const web = aggregatedPorts.webTests.get(port); if (web) { ... }
WebPart(agg, port, st) ==
  IF port \in DOMAIN agg.webTests THEN WebLoop(agg.webTests[port], st) ELSE st

\* the writes to the result maps at the end of the loop body, from the port's st
PortRecord(port, res, st) ==
  [severityMap |-> MapSet(res.severityMap, port, SeverityLabel(st.bestSev)),
   serviceLabel |-> ServiceLabelStep(port, st.detected, res.serviceLabel),
   detectedProtocol |->
     IF Truthy(st.detected) THEN MapSet(res.detectedProtocol, port, st.detected.s)
     ELSE res.detectedProtocol,
   findingCount |-> MapSet(res.findingCount, port, st.totalFindings),
   nonStandard |->
     IF IsNonStandard(port, st.detected) THEN res.nonStandard \cup {port}
     ELSE res.nonStandard,
   owaspCounts |-> st.owaspCounts,
   owaspIdsPerPort |->
     IF Cardinality(st.portOwaspIds) > 0
     THEN MapSet(res.owaspIdsPerPort, port, st.portOwaspIds)
     ELSE res.owaspIdsPerPort]

\* the body of "for (const port of aggregatedPorts.ports)"; res is the PortAnalysisResult
PortStep(agg, port, res) ==
  PortRecord(port, res, WebPart(agg, port, ServicePart(agg, port, PortStart(res))))

EmptyAnalysis ==
  [severityMap |-> EmptyMap, serviceLabel |-> EmptyMap, detectedProtocol |-> EmptyMap,
   findingCount |-> EmptyMap, nonStandard |-> {}, owaspCounts |-> EmptyMap,
   owaspIdsPerPort |-> EmptyMap]

RECURSIVE PortLoop(_, _, _)
PortLoop(agg, ports, res) ==
  IF ports = <<>> \/ ~Evaluated(res) THEN res
  ELSE PortLoop(agg, Tail(ports), PortStep(agg, Head(ports), res))

\* the useMemo body of portAnalysis
ComputePortAnalysis(agg) == PortLoop(agg, agg.ports, EmptyAnalysis)

(***************************************************************************)
(* The aggregated ports explored.                                          *)
(***************************************************************************)
Entry(name, result) == [name |-> name, result |-> result]

ObjWithFindings(f) ==
  RawObject([error |-> Undef, banner |-> Undef, findings |-> Arr(f),
             vulnerabilities |-> Absent, note |-> Undef,
             fields |-> NoFields, keys |-> BaseKeys])

ServiceEntries ==
  {Entry("_service_info_generic", RawString("VULNERABILITY: anonymous login")),
   Entry("_service_info_tls", ObjWithFindings(<<FindingObj(Str("Medium"), Str("Weak cipher"), Str("A02"))>>)),
   Entry("_service_info_ssh", ObjWithFindings(<<FindingObj(Str("low"), Str("Banner"), Str("A05")),
                                                FindingObj(Str("high"), Str("Weak MAC"), Str("A02"))>>)),
   Entry("_service_info_http", ObjWithFindings(<<FindingObj(Str("severe"), Str("Odd"), Undef)>>)),
   Entry("_custom_probe", RawString("open"))}

WebEntries ==
  {Entry("_web_test_xss", ObjWithFindings(<<FindingObj(Str("critical"), Str("XSS"), Str("A03"))>>)),
   Entry("_web_test_headers", ObjWithFindings(<<FindingObj(Str("LOW"), Str("No HSTS"), Str("A05"))>>)),
   Entry("_web_test_legacy", RawString("VULNERABILITY: directory listing"))}

\* the entries of a record: distinct keys, in any order
EntrySeqs(S, n) ==
  {e \in BoundedSeq(S, n) : \A i, j \in 1..Len(e) : i # j => e[i].name # e[j].name}

PortUniverse == {22, 80, 2222}

\* a second port, analysed before the port under study
OtherPort == 443
OtherServices ==
  <<Entry("_service_info_https", ObjWithFindings(<<FindingObj(Str("HIGH"), Str("Expired cert"), Str("A02"))>>))>>

AggregatedPorts ==
  {[ports |-> IF two THEN <<OtherPort, p>> ELSE <<p>>,
    services |-> [q \in (IF two THEN {OtherPort} ELSE {}) \cup (IF hasS THEN {p} ELSE {}) |->
                    IF q = p THEN s ELSE OtherServices],
    webTests |-> [q \in (IF hasW THEN {p} ELSE {}) |-> w]] :
     p \in PortUniverse, two \in BOOLEAN, hasS \in BOOLEAN, hasW \in BOOLEAN,
     s \in EntrySeqs(ServiceEntries, MaxProbes), w \in EntrySeqs(WebEntries, MaxProbes)}

NoPorts == [ports |-> <<>>, services |-> EmptyMap, webTests |-> EmptyMap]

(***************************************************************************)
(* The risk score of a pass: the credential component of its breakdown     *)
(* (spec 4.4; its code is not among the sources) and RiskScoreBadge        *)
(* (src/app/dashboard/jobs/[jobId]/components/RiskScoreBadge.tsx).         *)
(***************************************************************************)
\* riskScore?: number; // 0-100 risk score for this pass
MaxScore == 100

\* faulty variant of getRiskLevel: the upper end of a band belongs to the next band
getRiskLevel_StrictBounds(s) ==
  IF s < 20 THEN [label |-> "Low Risk", color |-> "text-emerald-400"]
  ELSE IF s < 40 THEN [label |-> "Moderate Risk", color |-> "text-yellow-400"]
  ELSE IF s < 60 THEN [label |-> "Elevated Risk", color |-> "text-amber-400"]
  ELSE IF s < 80 THEN [label |-> "High Risk", color |-> "text-red-400"]
  ELSE [label |-> "Critical Risk", color |-> "text-red-300"]

\* getRiskLevel(score): the label and the text colour (the other classes follow the colour)
getRiskLevel(s) ==
  IF s <= 20 THEN [label |-> "Low Risk", color |-> "text-emerald-400"]
  ELSE IF s <= 40 THEN [label |-> "Moderate Risk", color |-> "text-yellow-400"]
  ELSE IF s <= 60 THEN [label |-> "Elevated Risk", color |-> "text-amber-400"]
  ELSE IF s <= 80 THEN [label |-> "High Risk", color |-> "text-red-400"]
  ELSE [label |-> "Critical Risk", color |-> "text-red-300"]

\* RISK_BAND_DESCRIPTIONS in the order of Object.entries: the key, and the range
\* its description starts with ("0-20 - Minimal exposure...")
RISK_BAND_DESCRIPTIONS ==
  <<[band |-> "Low Risk", lo |-> 0, hi |-> 20],
    [band |-> "Moderate Risk", lo |-> 21, hi |-> 40],
    [band |-> "Elevated Risk", lo |-> 41, hi |-> 60],
    [band |-> "High Risk", lo |-> 61, hi |-> 80],
    [band |-> "Critical Risk", lo |-> 81, hi |-> 100]>>

\* the entries RiskTooltipContent renders with 'text-white font-semibold'
RiskTooltipContent(currentLabel) ==
  {i \in 1..Len(RISK_BAND_DESCRIPTIONS) : RISK_BAND_DESCRIPTIONS[i].band = currentLabel}

\* 15 points per distinct accepted-default-credential observation, capped at 30
CREDENTIAL_POINTS == 15
CREDENTIAL_CAP == 30

\* faulty variant of CredentialsPenalty: every observation counts, without a cap
CredentialsPenalty_Uncapped(obs) == CREDENTIAL_POINTS * Len(obs)

\* credentialsPenalty of a pass whose accepted-credential observations are obs
RECURSIVE CredentialsPenalty(_)
CredentialsPenalty(obs) ==
  IF obs = <<>> THEN 0
  ELSE IF \E i \in 1..(Len(obs) - 1) : obs[i] = obs[Len(obs)]
  THEN CredentialsPenalty(SubSeq(obs, 1, Len(obs) - 1))
  ELSE IF CredentialsPenalty(SubSeq(obs, 1, Len(obs) - 1)) + CREDENTIAL_POINTS > CREDENTIAL_CAP
  THEN CREDENTIAL_CAP
  ELSE CredentialsPenalty(SubSeq(obs, 1, Len(obs) - 1)) + CREDENTIAL_POINTS

NoLevel == [label |-> "", color |-> ""]

\* no pass has been scored and no badge rendered
InitRiskIdle ==
  /\ score = 0
  /\ observations = <<>>
  /\ credentialsPenalty = 0
  /\ riskLevel = NoLevel
  /\ highlighted = {}

(***************************************************************************)
(* ProbeResultBlock                                                        *)
(* (src/app/dashboard/jobs/[jobId]/components/ProbeResultBlock.tsx).       *)
(***************************************************************************)
maxCollapsedLines == 4

\* normalized.findings.filter((f) => f.severity === 'CRITICAL' || ... === 'MEDIUM')
CardFindings(findings) ==
  SelectSeq(findings, LAMBDA f : f.severity \in {"CRITICAL", "HIGH", "MEDIUM"})

\* normalized.findings.filter((f) => f.severity === 'LOW' || f.severity === 'INFO')
InlineFindings(findings) == SelectSeq(findings, LAMBDA f : f.severity \in {"LOW", "INFO"})

\* new Set(normalized.findings.map((f) => f.title))
FindingTitles(findings) == {findings[i].title : i \in 1..Len(findings)}

\* normalized.lines.filter((line) => { for (const title of findingTitles) ... })
InfoLines(lines, findingTitles) ==
  SelectSeq(lines, LAMBDA line : ~\E title \in findingTitles : Includes(line, title))

\* [...inlineFindings.map((f) => `[${f.severity}] ${f.title}`), ...infoLines]
PlainLines(inline, info) == [i \in 1..Len(inline) |-> PlainLabel(inline[i])] \o info

\* shouldTruncate && !isExpanded ? plainLines.slice(0, maxCollapsedLines) : plainLines
VisibleLines(plain, expanded) ==
  IF Len(plain) > maxCollapsedLines /\ ~expanded THEN SubSeq(plain, 1, maxCollapsedLines)
  ELSE plain

\* no block has been rendered
InitBlockIdle ==
  /\ isExpanded = FALSE
  /\ rendered = FALSE
  /\ cardFindings = <<>>
  /\ inlineFindings = <<>>
  /\ infoLines = <<>>
  /\ plainLines = <<>>
  /\ visibleLines = <<>>

(***************************************************************************)
(* The mock job store (src/lib/api/constants.ts).  A Job is                *)
(* [id, displayName, status, timeline, aggregate]; the fields that no      *)
(* operation of the store reads or writes after creation are left out.     *)
(* A Date is a number of minutes, an ISO date string is [iso |-> minutes].  *)
(* An optional value is <<>> (undefined) or <<v>>.                          *)
(***************************************************************************)
None == <<>>
Some(v) == <<v>>
\* opt ?? d
OrElse(opt, d) == IF opt = None THEN d ELSE opt[1]

\* at.toISOString() and new Date(entry.date)
toISOString(at) == [iso |-> at]
ParseDate(date) == date.iso

TimelineInput(type, label, at, actor, actorType) ==
  [type |-> type, label |-> label, at |-> at, actor |-> actor, actorType |-> actorType]
\* an input entry without actor and actorType
NodeEvent(type, label, at) == TimelineInput(type, label, at, None, None)

\* entries.sort((a, b) => a.at.getTime() - b.at.getTime()): a stable sort
RECURSIVE InsertByAt(_, _)
InsertByAt(x, sorted) ==
  IF sorted = <<>> THEN <<x>>
  ELSE IF x.at < Head(sorted).at THEN <<x>> \o sorted
  ELSE <<Head(sorted)>> \o InsertByAt(x, Tail(sorted))

RECURSIVE SortByAt(_)
SortByAt(entries) ==
  IF entries = <<>> THEN <<>>
  ELSE InsertByAt(entries[Len(entries)], SortByAt(SubSeq(entries, 1, Len(entries) - 1)))

\* .map(({ type, label, at, actor, actorType }) => ({ ... }))
TimelineEntry(e) ==
  [type |-> e.type, label |-> e.label, date |-> toISOString(e.at),
   actor |-> OrElse(e.actor, "mock-node"), actorType |-> OrElse(e.actorType, "node")]

RECURSIVE MapTimeline(_)
MapTimeline(sorted) ==
  IF sorted = <<>> THEN <<>>
  ELSE <<TimelineEntry(Head(sorted))>> \o MapTimeline(Tail(sorted))

buildTimeline(entries) == MapTimeline(SortByAt(entries))

NoAggregate == [defined |-> FALSE, openPorts |-> <<>>]
\* the aggregate of buildJob: the open ports of its three workers, sorted
BuildJobAggregate == [defined |-> TRUE, openPorts |-> <<22, 443, 445, 8081>>]
\* the aggregate a job without one gets when it is completed
CompletedAggregate == [defined |-> TRUE, openPorts |-> <<80, 443>>]

\* buildJob(partial); the module is loaded at minute 0
buildJob(id, displayName, status, timeline, aggregate) ==
  [id |-> id, displayName |-> displayName, status |-> status,
   timeline |-> OrElse(timeline,
                  buildTimeline(<<NodeEvent("created", "Job created", -40),
                                  NodeEvent("started", "Scan started on mock-node", -35),
                                  NodeEvent("completed", "Scan completed on mock-node", -5),
                                  NodeEvent("finalized", "Job finalized", -5)>>)),
   aggregate |-> IF aggregate.defined THEN aggregate ELSE BuildJobAggregate]

\* the Job objects of INITIAL_JOBS; the reference of a seed job is its position
SeedJobs ==
  <<buildJob(1, "Mesh Recon - Internal perimeter", "completed", None, NoAggregate),
    buildJob(2, "Mesh Breach Simulation - Finance cluster", "stopped",
      Some(buildTimeline(<<NodeEvent("created", "Job created", -25),
                           NodeEvent("started", "Scan started on mock-node", -20),
                           NodeEvent("stopped", "Job stopped", 0)>>)),
      NoAggregate),
    buildJob(3, "Mesh Diagnostics - Edge Node health", "completed",
      Some(buildTimeline(<<NodeEvent("created", "Job created", -5),
                           NodeEvent("completed", "Diagnostics collected", 0)>>)),
      [defined |-> TRUE, openPorts |-> <<22, 161>>]),
    buildJob(4, "Mesh Coverage - LATAM edge", "completed", None,
      [defined |-> TRUE, openPorts |-> <<53, 8080>>]),
    buildJob(5, "Mesh Load Test - EU mesh", "completed",
      Some(buildTimeline(<<NodeEvent("created", "Job created", -50),
                           NodeEvent("started", "Scan started on mock-node", -45),
                           NodeEvent("completed", "Load test completed", -5)>>)),
      [defined |-> TRUE, openPorts |-> <<443, 8443, 9443>>]),
    buildJob(6, "TLS Audit - Romania edge", "stopped",
      Some(buildTimeline(<<NodeEvent("created", "Job created", -80),
                           NodeEvent("started", "Scan started on mock-node", -70),
                           NodeEvent("stopped", "Job stopped", -60)>>)),
      NoAggregate),
    buildJob(7, "Incident Response Drill - APAC", "stopped",
      Some(buildTimeline(<<NodeEvent("created", "Job created", -140),
                           NodeEvent("started", "Scan started on mock-node", -135),
                           NodeEvent("stopped", "Job stopped", -130)>>)),
      NoAggregate)>>

\* const INITIAL_JOBS: Job[] = [...], as references
INITIAL_JOBS == [r \in 1..Len(SeedJobs) |-> r]

\* computeTimelineEvent(status)
computeTimelineEvent(status) ==
  CASE status = "running" -> [type |-> "started", label |-> "Workers executing"]
    [] status = "stopping" -> [type |-> "scheduled_for_stop", label |-> "Job stopping"]
    [] status = "stopped" -> [type |-> "stopped", label |-> "Job stopped"]
    [] status = "completed" -> [type |-> "completed", label |-> "Job completed"]
    [] OTHER -> [type |-> "created", label |-> "Status updated"]

\* a reference no object of the heap has
NewRef(h) == Cardinality(DOMAIN h) + 1

\* getMockJobs(): the jobs of the store, in order
JobsOf(h, jobs) == [i \in 1..Len(jobs) |-> h[jobs[i]]]

\* createMockJob(input) at the time t: the store after the call
createMockJob(h, jobs, input, t) ==
  [heap |-> [r \in DOMAIN h \cup {NewRef(h)} |->
               IF r \in DOMAIN h THEN h[r]
               ELSE [id |-> NewRef(h), displayName |-> input.name, status |-> "running",
                     timeline |->
                       buildTimeline(<<TimelineInput("created",
                         "Job created by " \o input.createdByName, t,
                         Some(IF input.createdByName # "" THEN input.createdByName
                              ELSE "operator"),
                         Some("user"))>>),
                     aggregate |-> NoAggregate]],
   jobs |-> <<NewRef(h)>> \o jobs]

\* job.timeline.map((entry) => ({ type: entry.type, label: entry.label, at: new Date(entry.date) }))
RECURSIVE TimelineInputs(_)
TimelineInputs(timeline) ==
  IF timeline = <<>> THEN <<>>
  ELSE <<NodeEvent(Head(timeline).type, Head(timeline).label, ParseDate(Head(timeline).date))>>
         \o TimelineInputs(Tail(timeline))

\* { ...job, ...updates } for the job whose id matches
TransitionedJob(job, status, t) ==
  [job EXCEPT
     !.status = status,
     !.timeline = buildTimeline(TimelineInputs(job.timeline)
                    \o <<NodeEvent(computeTimelineEvent(status).type,
                                   computeTimelineEvent(status).label, t)>>),
     !.aggregate = IF status = "completed" /\ ~job.aggregate.defined
                   THEN CompletedAggregate ELSE @]

\* faulty variant of TransitionStep: the matching job object is updated in place
TransitionStep_InPlace(acc, ref, id, status, t) ==
  IF acc.heap[ref].id # id THEN [acc EXCEPT !.jobs = Append(@, ref)]
  ELSE [heap |-> [acc.heap EXCEPT ![ref] = TransitionedJob(acc.heap[ref], status, t)],
        jobs |-> Append(acc.jobs, ref)]

\* the callback of mutableJobs.map for the job at ref: the same object when the id
\* differs, a new object otherwise
TransitionStep(acc, ref, id, status, t) ==
  IF acc.heap[ref].id # id THEN [acc EXCEPT !.jobs = Append(@, ref)]
  ELSE [heap |-> [r \in DOMAIN acc.heap \cup {NewRef(acc.heap)} |->
                    IF r \in DOMAIN acc.heap THEN acc.heap[r]
                    ELSE TransitionedJob(acc.heap[ref], status, t)],
        jobs |-> Append(acc.jobs, NewRef(acc.heap))]

RECURSIVE TransitionLoop(_, _, _, _, _)
TransitionLoop(acc, refs, id, status, t) ==
  IF refs = <<>> \/ ~Evaluated(acc) THEN acc
  ELSE TransitionLoop(TransitionStep(acc, Head(refs), id, status, t), Tail(refs), id, status, t)

\* transitionMockJob(id, status) at the time t: the store after the call
transitionMockJob(h, jobs, id, status, t) ==
  TransitionLoop([heap |-> h, jobs |-> <<>>], jobs, id, status, t)

\* the store when the module has been loaded
InitStoreIdle ==
  /\ heap = [r \in 1..Len(SeedJobs) |-> SeedJobs[r]]
  /\ mutableJobs = INITIAL_JOBS
  /\ now = 0
  /\ calls = 0
  /\ lastCall = [op |-> "load", id |-> 0, status |-> ""]

\* useState<number | null>(null)
InitSelectionIdle == selectedPort = None

InitViews == InitRiskIdle /\ InitBlockIdle /\ InitStoreIdle /\ InitSelectionIdle

\* the useState initial values of the filter and sort state
InitFilters ==
  /\ searchQuery = ""
  /\ severityFilter = {}
  /\ categoryFilter = {}
  /\ sortMode = "numeric"
  /\ owaspFilter = {}

(***************************************************************************)
(* The normalizer as a state machine: a raw result arrives, then           *)
(* normalizeProbeResult is applied to it.                                  *)
(***************************************************************************)
Init ==
  /\ raw \in RawResults
  /\ norm = EmptyResult
  /\ pc = "start"
  /\ aggregatedPorts = NoPorts
  /\ portAnalysis = EmptyAnalysis
  /\ InitFilters
  /\ InitViews

\* faulty variant of Normalize: the call consumes the findings array of its argument
Normalize_Consuming ==
  /\ pc = "start"
  /\ norm' = normalizeProbeResult(raw)
  /\ pc' = "done"
  /\ raw' = [raw EXCEPT !.obj.findings = Absent]
  /\ UNCHANGED <<aggregatedPorts, portAnalysis, filters, views>>

Normalize ==
  /\ pc = "start"
  /\ norm' = normalizeProbeResult(raw)
  /\ pc' = "done"
  /\ UNCHANGED <<raw, aggregatedPorts, portAnalysis, filters, views>>

Next == Normalize

Spec == Init /\ [][Next]_vars

(***************************************************************************)
(* The normalizer applied twice to one raw result, over structured results *)
(* that carry recognized and unrecognized fields in several key orders.    *)
(***************************************************************************)
Pair(key, val) == [key |-> key, val |-> val]

FieldPool ==
  {Pair("auth_methods", Arr(<<Str("password"), Str("publickey")>>)),
   Pair("accepted_credentials", Arr(<<Str("admin:admin")>>)),
   Pair("server_type", Str("vsftpd")),
   Pair("anonymous_access", Bool(FALSE)),
   Pair("tls_supported", Bool(FALSE)),
   Pair("directory_listing", Arr(<<Str("pub"), Str("etc")>>)),
   Pair("db_size", Str("5")),
   Pair("dangerous_methods", Arr(<<Str("PUT")>>)),
   Pair("generator", Str("WordPress")),
   Pair("open_relay", Bool(TRUE)),
   Pair("vpn_endpoints", Arr(<<Str("10.0.0.1")>>)),
   Pair("extra", Arr(<<Str("a"), Num(1)>>)),
   Pair("extra", Str("VULNERABILITY z")),
   Pair("uptime", Num(0))}

\* the properties of an object literal: distinct keys, in any order
PairSeqs ==
  {e \in BoundedSeq(FieldPool, MaxFields) : \A i, j \in 1..Len(e) : i # j => e[i].key # e[j].key}

\* the error, banner, findings and vulnerabilities beside the other properties
BaseConfigs ==
  {[error |-> Undef, banner |-> Undef, findings |-> Absent, vulnerabilities |-> Absent],
   [error |-> Undef, banner |-> Str("SSH-2.0"),
    findings |-> Arr(<<FindingObj(Str("high"), Str("Open Relay"), Str("A05"))>>),
    vulnerabilities |-> Absent],
   [error |-> Undef, banner |-> Str("SSH-2.0"), findings |-> Absent,
    vulnerabilities |-> Arr(<<Str("Open Relay on 25")>>)],
   [error |-> Str("boom"), banner |-> Str("SSH-2.0"), findings |-> Absent,
    vulnerabilities |-> Absent]}

FieldObject(base, ps, baseLast) ==
  [error |-> base.error, banner |-> base.banner, findings |-> base.findings,
   vulnerabilities |-> base.vulnerabilities, note |-> Undef,
   fields |-> [k \in {ps[i].key : i \in 1..Len(ps)} |->
                 ps[CHOOSE i \in 1..Len(ps) : ps[i].key = k].val],
   keys |-> IF baseLast THEN [i \in 1..Len(ps) |-> ps[i].key] \o BaseKeys
            ELSE BaseKeys \o [i \in 1..Len(ps) |-> ps[i].key]]

FieldResults ==
  {RawNull, RawString("ok\n\n VULNERABILITY x"), RawString("read timed out"),
   RawArray(<<"failed">>)}
    \cup {RawObject(FieldObject(base, ps, baseLast)) :
            base \in BaseConfigs, ps \in PairSeqs, baseLast \in BOOLEAN}

InitFields ==
  /\ raw \in FieldResults
  /\ norm = EmptyResult
  /\ pc = "start"
  /\ aggregatedPorts = NoPorts
  /\ portAnalysis = EmptyAnalysis
  /\ InitFilters
  /\ InitViews

\* a second call of normalizeProbeResult on the same raw result
Renormalize ==
  /\ pc = "done"
  /\ norm' = normalizeProbeResult(raw)
  /\ pc' = "again"
  /\ UNCHANGED <<raw, aggregatedPorts, portAnalysis, filters, views>>

NextFields == Normalize \/ Renormalize

SpecFields == InitFields /\ [][NextFields]_vars

(***************************************************************************)
(* The Discovered Ports view: the component is mounted with its            *)
(* aggregatedPorts prop, then the portAnalysis memo is computed.           *)
(***************************************************************************)
InitPorts ==
  /\ raw = RawNull
  /\ norm = EmptyResult
  /\ pc = "mounted"
  /\ aggregatedPorts \in AggregatedPorts
  /\ portAnalysis = EmptyAnalysis
  /\ InitFilters
  /\ InitViews

Analyze ==
  /\ pc = "mounted"
  /\ portAnalysis' = ComputePortAnalysis(aggregatedPorts)
  /\ pc' = "analyzed"
  /\ UNCHANGED <<raw, norm, aggregatedPorts, filters, views>>

NextPorts == Analyze

SpecPorts == InitPorts /\ [][NextPorts]_vars

(***************************************************************************)
(* The filter and sort query of the Discovered Ports view: filteredPorts   *)
(* and sortedPorts are memos of the state, the handlers change the filter  *)
(* and sort state.                                                         *)
(***************************************************************************)
SEVERITY_LEVELS == <<"CRITICAL", "HIGH", "MEDIUM", "LOW", "INFO">>

\* faulty variant of PortFilter: a port passes when any active group admits it
PortFilter_AnyGroup(port) ==
  \/ searchQuery = "" /\ severityFilter = {} /\ categoryFilter = {} /\ owaspFilter = {}
  \/ searchQuery # "" /\ Includes(NatToString(port), searchQuery)
  \/ MapGetOr(portAnalysis.severityMap, port, "INFO") \in severityFilter
  \/ "services" \in categoryFilter /\ port \in DOMAIN aggregatedPorts.services
  \/ "web" \in categoryFilter /\ port \in DOMAIN aggregatedPorts.webTests
  \/ /\ "nodata" \in categoryFilter
     /\ port \notin DOMAIN aggregatedPorts.services
     /\ port \notin DOMAIN aggregatedPorts.webTests
  \/ /\ port \in DOMAIN portAnalysis.owaspIdsPerPort
     /\ \E id \in owaspFilter : id \in portAnalysis.owaspIdsPerPort[port]

\* the callback of aggregatedPorts.ports.filter((port) => { ... })
PortFilter(port) ==
  /\ ~(searchQuery # "" /\ ~Includes(NatToString(port), searchQuery))
  /\ Cardinality(severityFilter) > 0
       => MapGetOr(portAnalysis.severityMap, port, "INFO") \in severityFilter
  /\ Cardinality(categoryFilter) > 0
       => LET hasService == port \in DOMAIN aggregatedPorts.services
              hasWeb == port \in DOMAIN aggregatedPorts.webTests
              hasData == hasService \/ hasWeb
          IN \/ "services" \in categoryFilter /\ hasService
             \/ "web" \in categoryFilter /\ hasWeb
             \/ "nodata" \in categoryFilter /\ ~hasData
  /\ Cardinality(owaspFilter) > 0
       => /\ port \in DOMAIN portAnalysis.owaspIdsPerPort
          /\ \E id \in owaspFilter : id \in portAnalysis.owaspIdsPerPort[port]

filteredPorts == SelectSeq(aggregatedPorts.ports, PortFilter)

\* faulty variant of RiskCompare: equal severities are not ordered by port
RiskCompare_NoTieBreak(a, b) ==
  SEVERITY_RANK[MapGetOr(portAnalysis.severityMap, a, "INFO")]
    - SEVERITY_RANK[MapGetOr(portAnalysis.severityMap, b, "INFO")]

\* the comparator (a, b) => { ...; if (sevA !== sevB) return sevA - sevB; return a - b }
RiskCompare(a, b) ==
  LET sevA == SEVERITY_RANK[MapGetOr(portAnalysis.severityMap, a, "INFO")]
      sevB == SEVERITY_RANK[MapGetOr(portAnalysis.severityMap, b, "INFO")]
  IN IF sevA # sevB THEN sevA - sevB ELSE a - b

\* Array.prototype.sort with the comparator: a stable insertion of x into sorted
RECURSIVE SortInsert(_, _)
SortInsert(x, sorted) ==
  IF sorted = <<>> THEN <<x>>
  ELSE IF RiskCompare(x, Head(sorted)) < 0 THEN <<x>> \o sorted
  ELSE <<Head(sorted)>> \o SortInsert(x, Tail(sorted))

RECURSIVE RiskSort(_)
RiskSort(ports) ==
  IF ports = <<>> THEN <<>>
  ELSE SortInsert(ports[Len(ports)], RiskSort(SubSeq(ports, 1, Len(ports) - 1)))

\* if (sortMode === 'numeric') return filteredPorts; return [...filteredPorts].sort(...)
sortedPorts == IF sortMode = "numeric" THEN filteredPorts ELSE RiskSort(filteredPorts)

\* next.has(x) ? next.delete(x) : next.add(x)
ToggleIn(set, x) == IF x \in set THEN set \ {x} ELSE set \cup {x}

\* the number of selected filter values, bounded by MaxSelected in the exploration
Selected == Cardinality(severityFilter) + Cardinality(categoryFilter) + Cardinality(owaspFilter)

SearchValues == {"", "80", "22"}

\* onChange={(e) => setSearchQuery(e.target.value)}
setSearchQuery ==
  /\ pc = "analyzed"
  /\ \E q \in SearchValues : searchQuery' = q
  /\ UNCHANGED <<raw, norm, pc, aggregatedPorts, portAnalysis,
                 severityFilter, categoryFilter, sortMode, owaspFilter, views>>

toggleSeverity ==
  /\ pc = "analyzed"
  /\ \E i \in 1..Len(SEVERITY_LEVELS) :
       /\ SEVERITY_LEVELS[i] \in severityFilter \/ Selected < MaxSelected
       /\ severityFilter' = ToggleIn(severityFilter, SEVERITY_LEVELS[i])
  /\ UNCHANGED <<raw, norm, pc, aggregatedPorts, portAnalysis,
                 searchQuery, categoryFilter, sortMode, owaspFilter, views>>

toggleCategory ==
  /\ pc = "analyzed"
  /\ \E cat \in {"services", "web", "nodata"} :
       /\ cat \in categoryFilter \/ Selected < MaxSelected
       /\ categoryFilter' = ToggleIn(categoryFilter, cat)
  /\ UNCHANGED <<raw, norm, pc, aggregatedPorts, portAnalysis,
                 searchQuery, severityFilter, sortMode, owaspFilter, views>>

\* one button per key of portAnalysis.owaspCounts (sortedOwaspIds)
toggleOwasp ==
  /\ pc = "analyzed"
  /\ \E id \in DOMAIN portAnalysis.owaspCounts :
       /\ id \in owaspFilter \/ Selected < MaxSelected
       /\ owaspFilter' = ToggleIn(owaspFilter, id)
  /\ UNCHANGED <<raw, norm, pc, aggregatedPorts, portAnalysis,
                 searchQuery, severityFilter, categoryFilter, sortMode, views>>

clearAllFilters ==
  /\ pc = "analyzed"
  /\ searchQuery' = ""
  /\ severityFilter' = {}
  /\ categoryFilter' = {}
  /\ owaspFilter' = {}
  /\ UNCHANGED <<raw, norm, pc, aggregatedPorts, portAnalysis, sortMode, views>>

setSortMode ==
  /\ pc = "analyzed"
  /\ \E m \in {"numeric", "risk"} : sortMode' = m
  /\ UNCHANGED <<raw, norm, pc, aggregatedPorts, portAnalysis,
                 searchQuery, severityFilter, categoryFilter, owaspFilter, views>>

\* the probe records of the ports of the queried pass
QueryServices ==
  (22 :> <<Entry("_service_info_ssh",
                 ObjWithFindings(<<FindingObj(Str("low"), Str("Banner"), Str("A05")),
                                   FindingObj(Str("high"), Str("Weak MAC"), Str("A02"))>>))>>)
  @@ (443 :> OtherServices)

QueryWebTests ==
  (80 :> <<Entry("_web_test_xss",
                 ObjWithFindings(<<FindingObj(Str("critical"), Str("XSS"), Str("A03"))>>))>>)
  @@ (443 :> <<Entry("_web_test_headers",
                     ObjWithFindings(<<FindingObj(Str("LOW"), Str("No HSTS"), Str("A05"))>>))>>)

QueryPortPool == {22, 80, 443, 8080}

\* distinct ports in any order, with the records of the ports listed
QueryPorts ==
  {[ports |-> ps,
    services |-> [q \in {ps[i] : i \in 1..Len(ps)} \cap DOMAIN QueryServices |-> QueryServices[q]],
    webTests |-> [q \in {ps[i] : i \in 1..Len(ps)} \cap DOMAIN QueryWebTests |-> QueryWebTests[q]]] :
     ps \in {e \in BoundedSeq(QueryPortPool, MaxPorts) :
               \A i, j \in 1..Len(e) : i # j => e[i] # e[j]}}

InitQuery ==
  /\ raw = RawNull
  /\ norm = EmptyResult
  /\ pc = "mounted"
  /\ aggregatedPorts \in QueryPorts
  /\ portAnalysis = EmptyAnalysis
  /\ InitFilters
  /\ InitViews

NextQuery ==
  \/ Analyze
  \/ setSearchQuery
  \/ toggleSeverity
  \/ toggleCategory
  \/ toggleOwasp
  \/ clearAllFilters
  \/ setSortMode

SpecQuery == InitQuery /\ [][NextQuery]_vars

(***************************************************************************)
(* A pass is scored, then its stored score is shown by RiskScoreBadge.     *)
(***************************************************************************)
CredentialPool == {"admin:admin", "root:root", "guest:guest"}

InitRisk ==
  /\ raw = RawNull
  /\ norm = EmptyResult
  /\ pc = "start"
  /\ aggregatedPorts = NoPorts
  /\ portAnalysis = EmptyAnalysis
  /\ InitFilters
  /\ score \in 0..MaxScore
  /\ observations \in BoundedSeq(CredentialPool, MaxObservations)
  /\ credentialsPenalty = 0
  /\ riskLevel = NoLevel
  /\ highlighted = {}
  /\ InitBlockIdle
  /\ InitStoreIdle
  /\ InitSelectionIdle

\* the breakdown of the pass is computed
ScorePass ==
  /\ pc = "start"
  /\ credentialsPenalty' = CredentialsPenalty(observations)
  /\ pc' = "scored"
  /\ UNCHANGED <<raw, norm, aggregatedPorts, portAnalysis, filters,
                 score, observations, riskLevel, highlighted, block, store, selection>>

\* RiskScoreBadge({ score }) renders the label and the tooltip
RiskScoreBadge ==
  /\ pc = "scored"
  /\ riskLevel' = getRiskLevel(score)
  /\ highlighted' = RiskTooltipContent(getRiskLevel(score).label)
  /\ pc' = "badge"
  /\ UNCHANGED <<raw, norm, aggregatedPorts, portAnalysis, filters,
                 score, observations, credentialsPenalty, block, store, selection>>

NextRisk == ScorePass \/ RiskScoreBadge

SpecRisk == InitRisk /\ [][NextRisk]_vars

(***************************************************************************)
(* A probe result is rendered by ProbeResultBlock, collapsed or expanded.  *)
(***************************************************************************)
BlockFindingEntries ==
  {FindingObj(sev, title, Undef) :
     sev \in {Str("high"), Str("low"), Str("severe"), Undef},
     title \in {Str("Open Relay"), Str(""), Str("SSH")}}

BlockObjects ==
  {[error |-> Undef, banner |-> b, findings |-> Arr(f), vulnerabilities |-> Absent,
    note |-> Undef, fields |-> t, keys |-> BaseKeys \o <<"technologies">>] :
     b \in {Undef, Str("SSH-2.0")},
     f \in BoundedSeq(BlockFindingEntries, MaxFindings),
     t \in {NoFields, [k \in {"technologies"} |-> Arr(<<Str("nginx"), Str("PHP")>>)]}}

BlockResults ==
  {RawNull, RawString("a\nb\nc\nd\ne"), RawString("read timed out")}
    \cup {RawObject(o) : o \in BlockObjects}

InitBlock ==
  /\ raw \in BlockResults
  /\ norm = EmptyResult
  /\ pc = "start"
  /\ aggregatedPorts = NoPorts
  /\ portAnalysis = EmptyAnalysis
  /\ InitFilters
  /\ InitRiskIdle
  /\ InitStoreIdle
  /\ InitSelectionIdle
  /\ isExpanded \in BOOLEAN
  /\ rendered = FALSE
  /\ cardFindings = <<>>
  /\ inlineFindings = <<>>
  /\ infoLines = <<>>
  /\ plainLines = <<>>
  /\ visibleLines = <<>>

\* what the block shows of the normalized result n
BlockOf(n, expanded) ==
  [cardFindings |-> CardFindings(n.findings),
   inlineFindings |-> InlineFindings(n.findings),
   infoLines |-> InfoLines(n.lines, FindingTitles(n.findings)),
   plainLines |-> PlainLines(InlineFindings(n.findings),
                             InfoLines(n.lines, FindingTitles(n.findings))),
   visibleLines |-> VisibleLines(PlainLines(InlineFindings(n.findings),
                                            InfoLines(n.lines, FindingTitles(n.findings))),
                                 expanded)]

\* ProbeResultBlock({ result, isExpanded }): one render
ProbeResultBlock ==
  /\ pc = "start"
  /\ norm' = normalizeProbeResult(raw)
  /\ pc' = "rendered"
  /\ IF Len(norm'.lines) = 0 /\ Len(norm'.findings) = 0
     THEN /\ rendered' = FALSE
          /\ UNCHANGED <<cardFindings, inlineFindings, infoLines, plainLines, visibleLines>>
     ELSE /\ rendered' = TRUE
          /\ cardFindings' = BlockOf(norm', isExpanded).cardFindings
          /\ inlineFindings' = BlockOf(norm', isExpanded).inlineFindings
          /\ infoLines' = BlockOf(norm', isExpanded).infoLines
          /\ plainLines' = BlockOf(norm', isExpanded).plainLines
          /\ visibleLines' = BlockOf(norm', isExpanded).visibleLines
  /\ UNCHANGED <<raw, aggregatedPorts, portAnalysis, filters, risk, store, selection,
                 isExpanded>>

\* onToggleExpand, and the render that follows
ToggleExpand ==
  /\ pc = "rendered"
  /\ rendered
  /\ Len(plainLines) > maxCollapsedLines
  /\ isExpanded' = ~isExpanded
  /\ visibleLines' = VisibleLines(plainLines, ~isExpanded)
  /\ UNCHANGED <<raw, norm, pc, aggregatedPorts, portAnalysis, filters, risk, store,
                 selection, rendered, cardFindings, inlineFindings, infoLines, plainLines>>

NextBlock == ProbeResultBlock \/ ToggleExpand

SpecBlock == InitBlock /\ [][NextBlock]_vars

(***************************************************************************)
(* Calls of createMockJob, transitionMockJob and resetMockJobs on the      *)
(* store, in any order; the clock may advance between two calls.           *)
(***************************************************************************)
JobStatuses == {"running", "stopping", "stopped", "completed"}
CreateInputs == {[name |-> "Scan", createdByName |-> c] : c \in {"alice", ""}}
\* the ids explored: the newest job, two seed jobs and an id no job has
ExploredIds == {heap[mutableJobs[1]].id, 1, 2, 0}

InitStore ==
  /\ raw = RawNull
  /\ norm = EmptyResult
  /\ pc = "start"
  /\ aggregatedPorts = NoPorts
  /\ portAnalysis = EmptyAnalysis
  /\ InitFilters
  /\ InitRiskIdle
  /\ InitBlockIdle
  /\ InitStoreIdle
  /\ InitSelectionIdle

CreateMockJob ==
  /\ calls < MaxCalls
  /\ \E input \in CreateInputs, t \in {now, now + 1} :
       /\ heap' = createMockJob(heap, mutableJobs, input, t).heap
       /\ mutableJobs' = createMockJob(heap, mutableJobs, input, t).jobs
       /\ now' = t
       /\ lastCall' = [op |-> "create", id |-> NewRef(heap), status |-> "running"]
  /\ calls' = calls + 1
  /\ UNCHANGED <<raw, norm, pc, aggregatedPorts, portAnalysis, filters, risk, block,
                 selection>>

TransitionMockJob ==
  /\ calls < MaxCalls
  /\ \E id \in ExploredIds, status \in JobStatuses, t \in {now, now + 1} :
       /\ heap' = transitionMockJob(heap, mutableJobs, id, status, t).heap
       /\ mutableJobs' = transitionMockJob(heap, mutableJobs, id, status, t).jobs
       /\ now' = t
       /\ lastCall' = [op |-> "transition", id |-> id, status |-> status]
  /\ calls' = calls + 1
  /\ UNCHANGED <<raw, norm, pc, aggregatedPorts, portAnalysis, filters, risk, block,
                 selection>>

\* resetMockJobs(): mutableJobs = [...INITIAL_JOBS]
ResetMockJobs ==
  /\ mutableJobs' = INITIAL_JOBS
  /\ lastCall' = [op |-> "reset", id |-> 0, status |-> ""]
  /\ UNCHANGED <<raw, norm, pc, aggregatedPorts, portAnalysis, filters, risk, block,
                 selection, heap, now, calls>>

NextStore == CreateMockJob \/ TransitionMockJob \/ ResetMockJobs

SpecStore == InitStore /\ [][NextStore]_vars

(***************************************************************************)
(* Discovered Ports with the selection: the filter and sort controls, the   *)
(* port pills, the close button of the detail panel and the Enter and       *)
(* Escape keys of the search box.                                           *)
(***************************************************************************)
CollapseAbove == 100
CollapsedCount == 50

\* sortedPorts.length > 100 && !portsExpanded ? sortedPorts.slice(0, 50) : sortedPorts,
\* with portsExpanded false: its button is rendered above 100 ports only
displayedPorts ==
  IF Len(sortedPorts) > CollapseAbove THEN SubSeq(sortedPorts, 1, CollapsedCount)
  ELSE sortedPorts

\* the pass with the ports ps and the records of QueryServices and QueryWebTests
PortsPass(ps) ==
  [ports |-> ps,
   services |-> [q \in {ps[i] : i \in 1..Len(ps)} \cap DOMAIN QueryServices |-> QueryServices[q]],
   webTests |-> [q \in {ps[i] : i \in 1..Len(ps)} \cap DOMAIN QueryWebTests |-> QueryWebTests[q]]]

SelectPorts == {PortsPass(<<22, 80, 443, 8080>>), PortsPass(<<443, 22>>)}

InitSelect ==
  /\ raw = RawNull
  /\ norm = EmptyResult
  /\ pc = "mounted"
  /\ aggregatedPorts \in SelectPorts
  /\ portAnalysis = EmptyAnalysis
  /\ InitFilters
  /\ InitViews

\* onClick={() => setSelectedPort(isSelected ? null : port)} of the pill of a port
ClickPill ==
  /\ pc = "analyzed"
  /\ \E i \in 1..Len(displayedPorts) :
       selectedPort' = IF selectedPort = Some(displayedPorts[i]) THEN None
                       ELSE Some(displayedPorts[i])
  /\ UNCHANGED <<raw, norm, pc, aggregatedPorts, portAnalysis, filters, risk, block, store>>

\* onClick={() => setSelectedPort(null)} of the detail panel, rendered when a port is selected
CloseDetails ==
  /\ pc = "analyzed"
  /\ selectedPort # None
  /\ selectedPort' = None
  /\ UNCHANGED <<raw, norm, pc, aggregatedPorts, portAnalysis, filters, risk, block, store>>

\* handleSearchKeyDown with e.key === 'Enter'
SearchEnter ==
  /\ pc = "analyzed"
  /\ selectedPort' = IF Len(sortedPorts) > 0 THEN Some(sortedPorts[1]) ELSE selectedPort
  /\ UNCHANGED <<raw, norm, pc, aggregatedPorts, portAnalysis, filters, risk, block, store>>

\* handleSearchKeyDown with e.key === 'Escape'
SearchEscape ==
  /\ pc = "analyzed"
  /\ searchQuery' = ""
  /\ UNCHANGED <<raw, norm, pc, aggregatedPorts, portAnalysis,
                 severityFilter, categoryFilter, sortMode, owaspFilter, views>>

NextSelect ==
  \/ Analyze
  \/ setSearchQuery
  \/ toggleSeverity
  \/ toggleCategory
  \/ toggleOwasp
  \/ clearAllFilters
  \/ setSortMode
  \/ ClickPill
  \/ CloseDetails
  \/ SearchEnter
  \/ SearchEscape

SpecSelect == InitSelect /\ [][NextSelect]_vars

(***************************************************************************)
(* Properties of normalizeProbeResult, checked under Spec.                 *)
(***************************************************************************)
Normalized == pc = "done"
StructuredNoError == pc = "done" /\ raw.kind = "object" /\ ~Truthy(raw.obj.error)

\* C1: for every input (null/undefined, free text, array, structured object with
\* or without an error field) the result has
\* hasVulnerability = (vulnerabilities is non-empty).
C1_HasVulnerabilityIffNonEmpty ==
  Normalized => (norm.hasVulnerability <=> Len(norm.vulnerabilities) > 0)

C1_Witness ==
  /\ Normalized
  /\ raw.kind = "string"
  /\ Len(norm.lines) = 3
  /\ norm.hasVulnerability
  /\ Len(norm.vulnerabilities) = 1

\* the error short-circuit result of the claim, for the error value e
IsErrorResult(e) ==
  /\ norm.hasError
  /\ norm.findings = <<>>
  /\ norm.vulnerabilities = <<>>
  /\ ~norm.hasVulnerability
  /\ norm.banner = Null
  /\ norm.lines = <<ToStr(e)>>

\* C2 as stated: a structured input whose error field is present with any
\* non-null value (an empty string, 0 and false included) yields the error
\* short-circuit result.
C2_AnyNonNullError ==
  (Normalized /\ raw.kind = "object" /\ ~Nullish(raw.obj.error)) => IsErrorResult(raw.obj.error)

\* C2 amended: a structured input whose error field is truthy (a non-empty
\* string, a non-zero number, true) yields hasError = true, findings = [],
\* vulnerabilities = [], hasVulnerability = false, banner = none and
\* lines = [the error message], whichever other fields are present; a falsy
\* error field does not short-circuit (hasError stays false).
C2_TruthyError ==
  (Normalized /\ raw.kind = "object") =>
    IF Truthy(raw.obj.error) THEN IsErrorResult(raw.obj.error) ELSE ~norm.hasError

C2_Witness ==
  /\ Normalized
  /\ raw.kind = "object"
  /\ raw.obj.error = Num(7)
  /\ raw.obj.findings.present
  /\ raw.obj.vulnerabilities.present
  /\ Truthy(raw.obj.banner)
  /\ Truthy(raw.obj.note)
  /\ norm.lines = <<"7">>

\* C3: every Finding returned by normalizeProbeResult has a severity among
\* CRITICAL, HIGH, MEDIUM, LOW, INFO (a missing or unrecognized input severity
\* becomes INFO).
C3_SeverityEnumerated ==
  Normalized =>
    \A i \in 1..Len(norm.findings) :
      norm.findings[i].severity \in {"CRITICAL", "HIGH", "MEDIUM", "LOW", "INFO"}

\* the object entries of obj.findings, in input order
FindingObjects == SelectSeq(raw.obj.findings.elems, LAMBDA f : f.isObj)
InputTitle(f) == IF Nullish(f.title) THEN "" ELSE ToStr(f.title)
InputSeverity(f) == IF Nullish(f.severity) THEN "INFO" ELSE ToUpperCase(ToStr(f.severity))
VulnGrade(f) == InputSeverity(f) \in {"CRITICAL", "HIGH", "MEDIUM"}
InVulnerabilities(x) == \E k \in 1..Len(norm.vulnerabilities) : norm.vulnerabilities[k] = x
InLines(x) == \E k \in 1..Len(norm.lines) : norm.lines[k] = x

\* C4 as stated: with a vulnerability-grade finding titled T and a legacy entry
\* that contains T (equal to T or longer), vulnerabilities holds exactly one
\* entry for the condition, i.e. exactly one entry that mentions T.
C4_DedupContaining ==
  StructuredNoError =>
    \A i \in 1..Len(FindingObjects) : \A j \in 1..Len(raw.obj.vulnerabilities.elems) :
      LET T == InputTitle(FindingObjects[i])
          vs == ToStr(raw.obj.vulnerabilities.elems[j])
      IN (VulnGrade(FindingObjects[i]) /\ T # "" /\ Includes(vs, T)
          /\ Len(FindingObjects) = 1 /\ Len(raw.obj.vulnerabilities.elems) = 1
          /\ Nullish(raw.obj.note))
         => Cardinality({k \in 1..Len(norm.vulnerabilities) :
                           Includes(norm.vulnerabilities[k], T)}) = 1

\* C4 amended: with a vulnerability-grade finding titled T and a legacy entry
\* whose text is exactly T, the legacy entry is skipped: vulnerabilities holds
\* the finding's label, no entry T, and lines holds no "VULNERABILITY: T".  A
\* legacy entry longer than T that no recorded label and no other legacy entry
\* contains is appended as a further entry.
C4_DedupEqual ==
  StructuredNoError =>
    LET fo == FindingObjects
        legacy == [j \in 1..Len(raw.obj.vulnerabilities.elems) |->
                     ToStr(raw.obj.vulnerabilities.elems[j])]
        title == [i \in 1..Len(fo) |-> InputTitle(fo[i])]
        graded == {i \in 1..Len(fo) : VulnGrade(fo[i])}
        label == [i \in 1..Len(fo) |->
                    "VULNERABILITY: [" \o InputSeverity(fo[i]) \o "] " \o title[i]]
        Contained(vs) ==
          \/ \E k \in graded : Includes(label[k], vs)
          \/ \E k \in 1..Len(legacy) : legacy[k] # vs /\ Includes(legacy[k], vs)
    IN \A i \in graded : \A j \in 1..Len(legacy) :
         /\ legacy[j] = title[i]
            => /\ InVulnerabilities(label[i])
               /\ ~InVulnerabilities(title[i])
               /\ ~InLines("VULNERABILITY: " \o title[i])
         /\ (Len(legacy[j]) > Len(title[i]) /\ Includes(legacy[j], title[i])
             /\ ~Contained(legacy[j]))
            => /\ InVulnerabilities(label[i])
               /\ InVulnerabilities(legacy[j])
               /\ InLines("VULNERABILITY: " \o legacy[j])

C4_Witness ==
  /\ StructuredNoError
  /\ Len(FindingObjects) = 1
  /\ InputTitle(FindingObjects[1]) = "Open Relay"
  /\ raw.obj.vulnerabilities.elems = <<Str("Open Relay")>>
  /\ norm.vulnerabilities = <<"VULNERABILITY: [HIGH] Open Relay">>

\* C5: a legacy entry is skipped if and only if a structured finding (of any
\* severity) whose title contains its text was recorded, or the same text was
\* recorded before; otherwise it is in vulnerabilities and in lines as
\* "VULNERABILITY: <text>".  An entry is not skipped because it is a substring
\* of a label's severity tag or of a different earlier legacy entry.
C5_LegacySkipRule ==
  (StructuredNoError /\ raw.obj.vulnerabilities.present) =>
    \A j \in 1..Len(raw.obj.vulnerabilities.elems) :
      LET vs == ToStr(raw.obj.vulnerabilities.elems[j])
          byFinding == \E i \in 1..Len(FindingObjects) :
                         Includes(InputTitle(FindingObjects[i]), vs)
      IN (InVulnerabilities(vs) /\ InLines("VULNERABILITY: " \o vs)) <=> ~byFinding

\* C6: without error, the object entries of findings yield one Finding and one
\* line each, in input order; CRITICAL/HIGH/MEDIUM render as
\* "VULNERABILITY: [<severity>] <title>" in lines and vulnerabilities, any other
\* severity as "[<severity>] <title>" in lines only.
C6_FindingRendering ==
  StructuredNoError =>
    LET n == Len(FindingObjects)
        Tag(i) == "[" \o norm.findings[i].severity \o "] " \o norm.findings[i].title
        Grade(i) == norm.findings[i].severity \in {"CRITICAL", "HIGH", "MEDIUM"}
        graded == SelectSeq([i \in 1..n |-> i], Grade)
    IN /\ Len(norm.findings) = n
       /\ Len(norm.lines) >= n
       /\ \A i \in 1..n :
            /\ norm.findings[i].title = InputTitle(FindingObjects[i])
            /\ norm.findings[i].severity = InputSeverity(FindingObjects[i])
            /\ norm.lines[i] = (IF Grade(i) THEN "VULNERABILITY: " \o Tag(i) ELSE Tag(i))
       /\ Len(norm.vulnerabilities) >= Len(graded)
       /\ \A k \in 1..Len(graded) :
            norm.vulnerabilities[k] = "VULNERABILITY: " \o Tag(graded[k])
       /\ \A k \in (Len(graded) + 1)..Len(norm.vulnerabilities) :
            ~StartsWith(norm.vulnerabilities[k], "VULNERABILITY: [")

C6_Witness ==
  /\ StructuredNoError
  /\ Len(raw.obj.findings.elems) = 2
  /\ Len(norm.lines) >= 2
  /\ Len(norm.vulnerabilities) = 3
  /\ norm.lines[1] = "[LOW] Open Relay"
  /\ norm.lines[2] = "VULNERABILITY: [MEDIUM] "
  /\ norm.vulnerabilities[1] = "VULNERABILITY: [MEDIUM] "

(***************************************************************************)
(* Properties of portAnalysis, checked under SpecPorts.                    *)
(***************************************************************************)
Analyzed == pc = "analyzed"
PortSet == {aggregatedPorts.ports[i] : i \in 1..Len(aggregatedPorts.ports)}
ServicesOf(port) == MapGetOr(aggregatedPorts.services, port, <<>>)
WebTestsOf(port) == MapGetOr(aggregatedPorts.webTests, port, <<>>)
\* every probe result attached to the port, in both categories
ResultsOf(port) ==
  {ServicesOf(port)[i].result : i \in 1..Len(ServicesOf(port))}
    \cup {WebTestsOf(port)[i].result : i \in 1..Len(WebTestsOf(port))}
\* the ranks of all findings of all probe results attached to the port
FindingRanksOf(port) ==
  UNION {{RankOf(normalizeProbeResult(r).findings[i].severity) :
            i \in 1..Len(normalizeProbeResult(r).findings)} : r \in ResultsOf(port)}

\* C7: a port's dominant severity is the most severe rank among all findings of
\* all probe results of the port in both categories, INFO when there are none,
\* whatever the order of the probes.
C7_DominantSeverity ==
  Analyzed =>
    \A port \in PortSet :
      /\ port \in DOMAIN portAnalysis.severityMap
      /\ LET ranks == FindingRanksOf(port) \cup {SEVERITY_RANK.INFO}
             best == CHOOSE m \in ranks : \A x \in ranks : m <= x
         IN /\ portAnalysis.severityMap[port] \in DOMAIN SEVERITY_RANK
            /\ SEVERITY_RANK[portAnalysis.severityMap[port]] = best

C7_Witness ==
  /\ Analyzed
  /\ \E port \in PortSet :
       /\ Len(ServicesOf(port)) = 1
       /\ ServicesOf(port)[1].name = "_service_info_tls"
       /\ Len(WebTestsOf(port)) = 1
       /\ WebTestsOf(port)[1].name = "_web_test_xss"
       /\ FindingRanksOf(port) = {SEVERITY_RANK.MEDIUM, SEVERITY_RANK.CRITICAL}
       /\ portAnalysis.severityMap[port] = "CRITICAL"

\* C8: a probe result with zero structured findings contributes by its
\* hasVulnerability flag: a rank more severe than INFO when the flag is true,
\* so a port with such a result does not end with dominantSeverity INFO.
C8_FreeTextFallback ==
  Analyzed =>
    \A port \in PortSet : \A r \in ResultsOf(port) :
      (Len(normalizeProbeResult(r).findings) = 0 /\ normalizeProbeResult(r).hasVulnerability)
        => portAnalysis.severityMap[port] # "INFO"

\* C9: the detected protocol of a port is the protocol of the first service
\* probe, in iteration order, that PROBE_TO_PROTOCOL maps to a protocol other
\* than GENERIC and TLS; it is none when no service probe qualifies.
C9_FirstProtocolWins ==
  Analyzed =>
    \A port \in PortSet :
      LET svc == ServicesOf(port)
          Qualifies(i) == /\ svc[i].name \in DOMAIN PROBE_TO_PROTOCOL
                          /\ PROBE_TO_PROTOCOL[svc[i].name] \notin {"GENERIC", "TLS"}
          hits == {i \in 1..Len(svc) : Qualifies(i)}
      IN IF hits = {}
         THEN port \notin DOMAIN portAnalysis.detectedProtocol
         ELSE /\ port \in DOMAIN portAnalysis.detectedProtocol
              /\ portAnalysis.detectedProtocol[port] =
                   PROBE_TO_PROTOCOL[svc[CHOOSE i \in hits : \A k \in hits : i <= k].name]

C9_Witness ==
  /\ Analyzed
  /\ \E port \in PortSet :
       /\ Len(ServicesOf(port)) = 2
       /\ ServicesOf(port)[1].name = "_service_info_ssh"
       /\ ServicesOf(port)[2].name = "_service_info_http"
       /\ portAnalysis.detectedProtocol[port] = "SSH"

\* C10: isNonStandard holds for a port if and only if a protocol was inferred
\* for it and the port is absent from WELL_KNOWN_PORTS or listed there with a
\* different service.
C10_NonStandardIff ==
  Analyzed =>
    \A port \in PortSet :
      (port \in portAnalysis.nonStandard) <=>
        /\ port \in DOMAIN portAnalysis.detectedProtocol
        /\ \/ port \notin DOMAIN WELL_KNOWN_PORTS
           \/ WELL_KNOWN_PORTS[port] # portAnalysis.detectedProtocol[port]

C10_Witness ==
  /\ Analyzed
  /\ aggregatedPorts.ports = <<443, 2222>>
  /\ DOMAIN portAnalysis.detectedProtocol = {443, 2222}
  /\ portAnalysis.detectedProtocol[2222] = "SSH"
  /\ portAnalysis.detectedProtocol[443] = "HTTPS"
  /\ portAnalysis.nonStandard = {2222}

\* C11: the service label of a port is its WELL_KNOWN_PORTS entry when the port
\* is listed there (even when a different protocol was inferred), otherwise
\* the inferred protocol, otherwise none.
C11_ServiceLabelPrecedence ==
  Analyzed =>
    \A port \in PortSet :
      IF port \in DOMAIN WELL_KNOWN_PORTS
      THEN /\ port \in DOMAIN portAnalysis.serviceLabel
           /\ portAnalysis.serviceLabel[port] = WELL_KNOWN_PORTS[port]
      ELSE IF port \in DOMAIN portAnalysis.detectedProtocol
      THEN /\ port \in DOMAIN portAnalysis.serviceLabel
           /\ portAnalysis.serviceLabel[port] = portAnalysis.detectedProtocol[port]
      ELSE port \notin DOMAIN portAnalysis.serviceLabel

C11_Witness ==
  /\ Analyzed
  /\ aggregatedPorts.ports = <<22>>
  /\ DOMAIN portAnalysis.detectedProtocol = {22}
  /\ portAnalysis.detectedProtocol[22] = "HTTP"
  /\ portAnalysis.serviceLabel[22] = "SSH"

\* C12: a port with neither service-detection results nor web-test results
\* gets dominantSeverity INFO, findingCount 0, no detected protocol and
\* isNonStandard false.
C12_EmptyPort ==
  Analyzed =>
    \A port \in PortSet :
      (Len(ServicesOf(port)) = 0 /\ Len(WebTestsOf(port)) = 0)
        => /\ port \in DOMAIN portAnalysis.severityMap
           /\ portAnalysis.severityMap[port] = "INFO"
           /\ port \in DOMAIN portAnalysis.findingCount
           /\ portAnalysis.findingCount[port] = 0
           /\ port \notin DOMAIN portAnalysis.detectedProtocol
           /\ port \notin portAnalysis.nonStandard

C12_Witness ==
  /\ Analyzed
  /\ aggregatedPorts.ports = <<443, 2222>>
  /\ 2222 \notin DOMAIN aggregatedPorts.services
  /\ 2222 \notin DOMAIN aggregatedPorts.webTests
  /\ portAnalysis.findingCount = (443 :> 1) @@ (2222 :> 0)
  /\ portAnalysis.severityMap = (443 :> "HIGH") @@ (2222 :> "INFO")

\* the normalized findings of every probe entry of the port, both categories
RECURSIVE FindingsOfEntries(_)
FindingsOfEntries(entries) ==
  IF entries = <<>> THEN <<>>
  ELSE normalizeProbeResult(Head(entries).result).findings \o FindingsOfEntries(Tail(entries))
FindingsOfPort(port) == FindingsOfEntries(ServicesOf(port) \o WebTestsOf(port))
Carries(f, id) == f.owasp_id.t = "string" /\ f.owasp_id.s = id /\ id # ""
\* the findings of each port of ports, in order
RECURSIVE FindingsPerPort(_)
FindingsPerPort(ports) ==
  IF ports = <<>> THEN <<>>
  ELSE <<FindingsOfPort(Head(ports))>> \o FindingsPerPort(Tail(ports))
\* the distinct identifiers carried by the findings fs
OwaspIdsIn(fs) == {fs[i].owasp_id.s : i \in {k \in 1..Len(fs) : Truthy(fs[k].owasp_id)}}
\* the number of findings carrying id in the sequences fps
RECURSIVE OwaspTally(_, _)
OwaspTally(fps, id) ==
  IF fps = <<>> THEN 0
  ELSE Cardinality({i \in 1..Len(Head(fps)) : Carries(Head(fps)[i], id)})
       + OwaspTally(Tail(fps), id)

\* C13: after aggregation a port's compliance-id set is the set of distinct
\* owasp_id values carried by the findings of the port, the global tally of an
\* identifier is the number of findings carrying it over all ports, and an
\* identifier has a tally of at least 1 iff it belongs to some port's set.
C13_OwaspTally ==
  Analyzed =>
    LET ports == aggregatedPorts.ports
        fps == FindingsPerPort(ports)
        ids == UNION {OwaspIdsIn(fps[k]) : k \in 1..Len(ports)}
                 \cup DOMAIN portAnalysis.owaspCounts
    IN /\ \A k \in 1..Len(ports) :
            /\ MapGetOr(portAnalysis.owaspIdsPerPort, ports[k], {}) = OwaspIdsIn(fps[k])
            /\ ports[k] \in DOMAIN portAnalysis.owaspIdsPerPort => OwaspIdsIn(fps[k]) # {}
       /\ \A id \in ids :
            /\ MapGetOr(portAnalysis.owaspCounts, id, 0) = OwaspTally(fps, id)
            /\ (MapGetOr(portAnalysis.owaspCounts, id, 0) >= 1)
                 <=> \E port \in PortSet :
                       id \in MapGetOr(portAnalysis.owaspIdsPerPort, port, {})

C13_Witness ==
  /\ Analyzed
  /\ aggregatedPorts.ports = <<443, 22>>
  /\ DOMAIN portAnalysis.owaspIdsPerPort = {443, 22}
  /\ portAnalysis.owaspIdsPerPort[22] = {"A02", "A05"}
  /\ portAnalysis.owaspCounts = ("A02" :> 3) @@ ("A05" :> 1)

(***************************************************************************)
(* Properties of the filter and sort query, checked under SpecQuery.       *)
(***************************************************************************)
InSeq(x, seq) == \E i \in 1..Len(seq) : seq[i] = x
DominantSeverity(port) == portAnalysis.severityMap[port]
ComplianceIds(port) == MapGetOr(portAnalysis.owaspIdsPerPort, port, {})
HasServiceData(port) == port \in DOMAIN aggregatedPorts.services
HasWebTestData(port) == port \in DOMAIN aggregatedPorts.webTests
Ascending(seq) == \A i, j \in 1..Len(seq) : i < j => seq[i] < seq[j]

\* C14: the filter includes a port iff all four predicates hold together: the
\* text fragment is empty or a substring of the port's decimal text; the
\* severity set is empty or contains the port's dominant severity; the
\* category set is empty or a requested category (has service data, has
\* web-test data, has no data) holds for the port; the compliance set is empty
\* or intersects the port's compliance-id set.
C14_FilterConjunctive ==
  Analyzed =>
    /\ \A port \in PortSet :
         InSeq(port, filteredPorts) <=>
           /\ searchQuery = "" \/ Includes(NatToString(port), searchQuery)
           /\ severityFilter = {} \/ DominantSeverity(port) \in severityFilter
           /\ \/ categoryFilter = {}
              \/ "services" \in categoryFilter /\ HasServiceData(port)
              \/ "web" \in categoryFilter /\ HasWebTestData(port)
              \/ "nodata" \in categoryFilter /\ ~HasServiceData(port) /\ ~HasWebTestData(port)
           /\ owaspFilter = {} \/ (owaspFilter \cap ComplianceIds(port)) # {}
    /\ \A i \in 1..Len(filteredPorts) : filteredPorts[i] \in PortSet

C14_Witness ==
  /\ Analyzed
  /\ aggregatedPorts.ports = <<8080, 80, 22>>
  /\ searchQuery = "80"
  /\ severityFilter = {"CRITICAL"}
  /\ categoryFilter = {"web"}
  /\ owaspFilter = {"A03"}
  /\ filteredPorts = <<80>>

\* C15: in numeric sort mode the output lists the filtered ports in ascending
\* port-number order for every input port sequence, sorted or not, and a query
\* with every filter empty returns every port in numeric order.
C15_NumericAscending ==
  (Analyzed /\ sortMode = "numeric") =>
    /\ Ascending(sortedPorts)
    /\ \A port \in PortSet : InSeq(port, filteredPorts) <=> InSeq(port, sortedPorts)
    /\ (searchQuery = "" /\ severityFilter = {} /\ categoryFilter = {} /\ owaspFilter = {})
         => Len(sortedPorts) = Len(aggregatedPorts.ports)

\* C16: in risk sort mode the output is a permutation of the filtered ports
\* ordered by dominant-severity rank ascending (most severe first), with port
\* number ascending as the tie-break among ports of equal severity.
C16_RiskOrder ==
  (Analyzed /\ sortMode = "risk") =>
    /\ Len(sortedPorts) = Len(filteredPorts)
    /\ \A port \in PortSet : InSeq(port, filteredPorts) <=> InSeq(port, sortedPorts)
    /\ \A i, j \in 1..Len(sortedPorts) :
         i < j =>
           LET ri == SEVERITY_RANK[DominantSeverity(sortedPorts[i])]
               rj == SEVERITY_RANK[DominantSeverity(sortedPorts[j])]
           IN ri < rj \/ (ri = rj /\ sortedPorts[i] < sortedPorts[j])

C16_Witness ==
  /\ Analyzed
  /\ sortMode = "risk"
  /\ aggregatedPorts.ports = <<443, 22, 80>>
  /\ severityFilter = {"CRITICAL", "HIGH"}
  /\ filteredPorts = <<443, 22, 80>>
  /\ sortedPorts = <<80, 22, 443>>

C18_FreeTextError ==
  (Normalized /\ raw.kind = "string") =>
    /\ norm.findings = <<>>
    /\ norm.hasError <=> \/ Includes(raw.text, "failed")
                         \/ Includes(raw.text, "timed out")
                         \/ StartsWith(raw.text, "ERROR:")

C18_Witness ==
  /\ Normalized
  /\ raw.kind = "string"
  /\ raw.text = "ERROR: refused"
  /\ norm.hasError
  /\ norm.findings = <<>>
  /\ norm.lines = <<"ERROR: refused">>

\* the keys the claims call recognized, by the shape their dedicated line needs
JoinedKeys ==
  {"auth_methods", "accepted_credentials", "features", "negotiation_options",
   "connected_clients", "security_type_labels", "technologies"}
PerEntryKeys == {"directory_listing", "weak_algorithms"}
TextKeys ==
  {"server_type", "system_info", "server_hostname", "max_message_size", "ssh_version",
   "version", "os", "auth_plugin", "server", "title", "powered_by", "generator"}
TrueOnlyKeys == {"anonymous_access", "write_access"}
BooleanKeys == {"tls_supported", "config_writable"}
\* recognized keys that have no line of their own
SuppressedKeys ==
  {"starttls", "open_relay", "vrfy_enabled", "expn_enabled", "protocol_byte",
   "security_types", "vpn_endpoints"}
RecognizedKeys ==
  JoinedKeys \cup PerEntryKeys \cup TextKeys \cup TrueOnlyKeys \cup BooleanKeys
    \cup SuppressedKeys
    \cup {"db_size", "dangerous_methods", "banner", "vulnerabilities", "error", "findings"}

\* the value is present and not empty: not null, not '', not []
NonEmptyValue(v) == IF IsArray(v) THEN Len(v.elems) > 0 ELSE ~Nullish(v) /\ v # Str("")

\* the value has the shape the dedicated line of the key is rendered for
HasRenderedShape(key, v) ==
  CASE key \in JoinedKeys \cup PerEntryKeys -> IsArray(v) /\ Len(v.elems) > 0
    [] key = "dangerous_methods" -> IsArray(v) /\ Len(v.elems) > 0 /\ norm.findings = <<>>
    [] key \in TextKeys -> TruthyValue(v)
    [] key \in TrueOnlyKeys -> ~IsArray(v) /\ v = Bool(TRUE)
    [] key \in BooleanKeys -> ~IsArray(v) /\ v.t = "boolean"
    [] key = "db_size" -> ~IsArray(v) /\ v.t = "number"
    [] OTHER -> FALSE

\* the raw object without the property key
WithoutKey(obj, key) ==
  [obj EXCEPT !.fields = [k \in (DOMAIN obj.fields) \ {key} |-> obj.fields[k]],
              !.keys = SelectSeq(obj.keys, LAMBDA k : k # key)]
\* the property leaves no trace in lines: the same lines come out without it
Dropped(key) == normalizeProbeResult(RawObject(WithoutKey(raw.obj, key))).lines = norm.lines
\* the generic line of an unrecognized key
GenericLine(key, v) ==
  key \o ": " \o (IF IsArray(v) THEN JsonStringify(v) ELSE ToStr(v))

\* C19 as stated: for a structured input without error every top-level field
\* that is present and non-empty is represented in lines, a recognized field
\* through its dedicated line and any other field through a generic
\* "key: value" line; no present, non-empty field is dropped.
C19_NoFieldDropped ==
  StructuredNoError =>
    \A key \in DOMAIN raw.obj.fields :
      NonEmptyValue(raw.obj.fields[key]) =>
        IF key \in RecognizedKeys THEN ~Dropped(key)
        ELSE InLines(GenericLine(key, raw.obj.fields[key]))

\* C19 amended: for a structured input without error, every field outside the
\* recognized set whose value is not null or undefined has its generic
\* "key: value" line, and a recognized field with a dedicated line is
\* represented when its value has the shape that line is rendered for; the
\* recognized keys without a dedicated line (starttls, open_relay,
\* vrfy_enabled, expn_enabled, protocol_byte, security_types, vpn_endpoints)
\* and recognized fields of another shape leave no line.
C19_RenderedOrSuppressed ==
  StructuredNoError =>
    \A key \in DOMAIN raw.obj.fields :
      IF key \notin RecognizedKeys
      THEN InLines(GenericLine(key, raw.obj.fields[key]))
      ELSE Dropped(key) <=> ~HasRenderedShape(key, raw.obj.fields[key])

C19_Witness ==
  /\ StructuredNoError
  /\ raw.obj.keys = <<"uptime", "vpn_endpoints">> \o BaseKeys
  /\ raw.obj.fields["vpn_endpoints"] = Arr(<<Str("10.0.0.1")>>)
  /\ raw.obj.fields["uptime"] = Num(0)
  /\ ~Truthy(raw.obj.banner)
  /\ norm.lines = <<"uptime: 0">>

\* every key of the object is a recognized field (or has no value)
AllKeysRecognized ==
  \A i \in 1..Len(raw.obj.keys) :
    raw.obj.keys[i] \in RecognizedKeys \/ Prop(raw.obj, raw.obj.keys[i]) = Undef
\* one fixed order of the keys explored
KeyOrder ==
  <<"generator", "vpn_endpoints", "open_relay", "dangerous_methods", "db_size",
    "directory_listing", "tls_supported", "anonymous_access", "server_type",
    "accepted_credentials", "auth_methods", "note", "vulnerabilities", "findings",
    "banner", "error", "extra", "uptime">>
Reordered(obj) ==
  [obj EXCEPT !.keys = SelectSeq(KeyOrder, LAMBDA k : InSeq(k, obj.keys))]
\* the precedence class of a line
LineClass(l) ==
  CASE StartsWith(l, "VULNERABILITY: [") \/ StartsWith(l, "[") -> 0
    [] StartsWith(l, "Banner: ") -> 1
    [] StartsWith(l, "Auth methods: ") -> 2
    [] StartsWith(l, "VULNERABILITY: ") -> 3
    [] StartsWith(l, "Accepted credentials: ") -> 4
    [] OTHER -> 5

\* C20: for a structured input without error whose keys are all recognized, the
\* order of lines is fixed by field precedence (banner line before auth-methods
\* line before legacy vulnerability lines before accepted-credentials line
\* before the protocol-specific fields) and does not depend on the order of the
\* keys: the same fields in another key order give identical lines.
C20_FieldPrecedence ==
  (StructuredNoError /\ AllKeysRecognized) =>
    /\ normalizeProbeResult(RawObject(Reordered(raw.obj))).lines = norm.lines
    /\ \A i, j \in 1..Len(norm.lines) :
         i < j => LineClass(norm.lines[i]) <= LineClass(norm.lines[j])

C20_Witness ==
  /\ StructuredNoError
  /\ AllKeysRecognized
  /\ raw.obj.keys = <<"accepted_credentials", "auth_methods">> \o BaseKeys
  /\ Reordered(raw.obj).keys # raw.obj.keys
  /\ norm.lines = <<"Banner: SSH-2.0", "Auth methods: password, publickey",
                    "VULNERABILITY: Open Relay on 25", "Accepted credentials: admin:admin">>

(***************************************************************************)
(* Properties of the risk score, checked under SpecRisk.                   *)
(***************************************************************************)
\* the bands whose documented range holds the score s
BandsOf(s) ==
  {i \in 1..Len(RISK_BAND_DESCRIPTIONS) :
     RISK_BAND_DESCRIPTIONS[i].lo <= s /\ s <= RISK_BAND_DESCRIPTIONS[i].hi}

\* C21: getRiskLevel maps every integer score in 0..100 to exactly one band,
\* the one whose documented range (0-20 Low, 21-40 Moderate, 41-60 Elevated,
\* 61-80 High, 81-100 Critical) holds the score, and the returned label is a
\* key of RISK_BAND_DESCRIPTIONS, so exactly one band is highlighted in the
\* tooltip.
C21_RiskBands ==
  pc = "badge" =>
    /\ Cardinality(BandsOf(score)) = 1
    /\ \A i \in BandsOf(score) : RISK_BAND_DESCRIPTIONS[i].band = riskLevel.label
    /\ Cardinality(highlighted) = 1
    /\ highlighted = BandsOf(score)

C21_Witness ==
  /\ pc = "badge"
  /\ score = 40
  /\ riskLevel.label = "Moderate Risk"
  /\ highlighted = {2}

\* the number of distinct observations of the pass
DistinctObservations == Cardinality({observations[i] : i \in 1..Len(observations)})

\* C22: credentialsPenalty of a pass with n distinct accepted-default-credential
\* observations is min(15 * n, 30): 0 for none, 15 for one, 30 for two or
\* more, and never above 30.
C22_CredentialsPenalty ==
  pc # "start" =>
    /\ credentialsPenalty <= 30
    /\ DistinctObservations = 0 => credentialsPenalty = 0
    /\ DistinctObservations = 1 => credentialsPenalty = 15
    /\ DistinctObservations >= 2 => credentialsPenalty = 30

C22_Witness ==
  /\ pc = "scored"
  /\ observations = <<"admin:admin", "root:root", "admin:admin">>
  /\ credentialsPenalty = 30

(***************************************************************************)
(* Properties of ProbeResultBlock, checked under SpecBlock.                *)
(***************************************************************************)
\* the line normalizeProbeResult pushes for the finding f
FlattenedLine(f) == IF isVuln(f.severity) THEN VulnLabel(f) ELSE PlainLabel(f)
FlattenedLines == {FlattenedLine(norm.findings[i]) : i \in 1..Len(norm.findings)}

\* C24: the block splits the normalized findings into cards
\* (CRITICAL/HIGH/MEDIUM) and inline entries (LOW/INFO) so that every finding
\* returned by normalizeProbeResult is in exactly one of the two groups; none
\* is omitted from both.
C24_FindingShownOnce ==
  (pc = "rendered" /\ rendered) =>
    /\ Len(cardFindings) + Len(inlineFindings) = Len(norm.findings)
    /\ \A i \in 1..Len(norm.findings) :
         InSeq(norm.findings[i], cardFindings) # InSeq(norm.findings[i], inlineFindings)

\* C25: the block removes from the plain info lines only the lines that are
\* the flattened rendering of a structured finding; every other normalized
\* line stays in the plain-text section, also when a title is empty or is a
\* substring of such a line.
C25_OnlyFindingLinesRemoved ==
  (pc = "rendered" /\ rendered) =>
    infoLines = SelectSeq(norm.lines, LAMBDA line : line \notin FlattenedLines)

(***************************************************************************)
(* Further properties of normalizeProbeResult, checked under Spec.         *)
(***************************************************************************)
\* C26: for every input each entry of vulnerabilities is a substring of at
\* least one entry of lines, so hasVulnerability = true implies that a line of
\* the same result carries that vulnerability text.
C26_VulnerabilityInLines ==
  Normalized =>
    /\ \A i \in 1..Len(norm.vulnerabilities) :
         \E j \in 1..Len(norm.lines) : Includes(norm.lines[j], norm.vulnerabilities[i])
    /\ norm.hasVulnerability =>
         \E i \in 1..Len(norm.vulnerabilities), j \in 1..Len(norm.lines) :
           Includes(norm.lines[j], norm.vulnerabilities[i])

C26_Witness ==
  /\ Normalized
  /\ raw.kind = "object"
  /\ norm.hasVulnerability
  /\ norm.vulnerabilities = <<"VULNERABILITY: [HIGH] Open Relay", "VULNERABILITY y">>
  /\ norm.lines = <<"VULNERABILITY: [HIGH] Open Relay", "note: VULNERABILITY y">>

\* C27: for structured input hasError and hasVulnerability are never both
\* true: hasError is true exactly when the error short-circuit fired, and then
\* vulnerabilities and findings are empty.
C27_ErrorExcludesVulnerability ==
  (Normalized /\ raw.kind = "object") =>
    /\ ~(norm.hasError /\ norm.hasVulnerability)
    /\ norm.hasError <=> ErrorSet(raw.obj)
    /\ norm.hasError => (norm.vulnerabilities = <<>> /\ norm.findings = <<>>)

C27_Witness ==
  /\ Normalized
  /\ raw.kind = "object"
  /\ raw.obj.error = Str("connect timeout")
  /\ raw.obj.vulnerabilities.present
  /\ raw.obj.findings.present
  /\ raw.obj.note = Str("VULNERABILITY y")
  /\ norm.hasError
  /\ ~norm.hasVulnerability

\* the dates of a timeline never decrease
Chronological(timeline) ==
  \A i \in 1..Len(timeline) - 1 : timeline[i].date.iso <= timeline[i + 1].date.iso

\* what claim C28 says of one job across a call transitionMockJob(id, status)
TransitionFrame(before, after, id, status) ==
  IF before.id # id THEN after = before
  ELSE /\ after.id = id
       /\ after.displayName = before.displayName
       /\ after.status = status
       /\ Len(after.timeline) = Len(before.timeline) + 1
       /\ SubSeq(after.timeline, 1, Len(before.timeline)) = before.timeline
       /\ after.timeline[Len(after.timeline)].type = computeTimelineEvent(status).type
       /\ Chronological(after.timeline)

\* C28: transitionMockJob(id, status) changes only the job with that id: it sets the
\* status and appends one timeline entry, every earlier entry keeps its type, label,
\* date, actor and actorType, and the timeline stays in chronological order; the
\* other jobs and the order of the list are unchanged, and an id no job has leaves
\* the whole store unchanged.
C28_TransitionChangesOnlyThatJob ==
  [][(calls' = calls + 1 /\ lastCall'.op = "transition") =>
       /\ Len(mutableJobs') = Len(mutableJobs)
       /\ \A i \in 1..Len(mutableJobs) :
            TransitionFrame(heap[mutableJobs[i]], heap'[mutableJobs'[i]],
                            lastCall'.id, lastCall'.status)]_vars

\* C29: after any calls of createMockJob and transitionMockJob, resetMockJobs restores
\* the store: getMockJobs returns the seed jobs in the initial order with their initial
\* status, timeline and aggregate; no operation ever alters a seed job object.
C29_ResetRestoresSeeds ==
  /\ \A i \in 1..Len(SeedJobs) : heap[INITIAL_JOBS[i]] = SeedJobs[i]
  /\ lastCall.op = "reset" =>
       /\ Len(mutableJobs) = Len(SeedJobs)
       /\ \A i \in 1..Len(SeedJobs) : JobsOf(heap, mutableJobs)[i] = SeedJobs[i]

\* a reset after a job was created and a seed job was moved to another status
C29_Witness ==
  /\ lastCall.op = "reset"
  /\ calls = MaxCalls
  /\ \E r \in DOMAIN heap :
       /\ r > Len(SeedJobs)
       /\ heap[r].id = SeedJobs[1].id
       /\ heap[r].status # SeedJobs[1].status
  /\ \E r \in DOMAIN heap : heap[r].id > Len(SeedJobs)

\* C30: in Discovered Ports, after any search edits, filter toggles, sort changes,
\* pill clicks and Enter or Escape key presses, the selected port is none or a member
\* of the filtered port list.
C30_SelectedPortIsFiltered ==
  \/ selectedPort = None
  \/ \E i \in 1..Len(filteredPorts) : filteredPorts[i] = selectedPort[1]

====
